---- MODULE Spec2Model ----
(***************************************************************************)
(* A model of the crawler of the Search-Engine repository:                 *)
(*   - the robots.txt parsers (crawler/robots_parser.py and                *)
(*     crawler/crawler_policies/politeness_policy.py),                     *)
(*   - the robots caches (page_fetcher.py, politeness_policy.py),          *)
(*   - the politeness delay (politeness_policy.py),                        *)
(*   - the retrying fetcher (page_fetcher.py),                             *)
(*   - the worker pool of the crawl manager (crawler_manager.py),          *)
(*   - the depth-bounded crawl loop of the fetcher (page_fetcher.py),      *)
(*   - link extraction (content_extractor.py, robots_parser.py),           *)
(*   - one robots parser and one politeness policy used for several hosts, *)
(*   - the single-host Crawler (robots_parser.py),                         *)
(* and of the API key decorator with its rate limiter                      *)
(* (security/authentication/api_key_auth.py).                              *)
(* Each part has its own specification over its own variables; the other   *)
(* variables are left unchanged by it.                                     *)
(***************************************************************************)
EXTENDS Integers, Sequences, FiniteSets, TLC

VARIABLES
    \* ---- robots.txt parsing (ParseSpec) ----
    robots_text,        \* the lines of the robots.txt being parsed
    agent,              \* the crawler's configured user agent
    rp,                 \* state of robots_parser.py RobotsParser
    pp,                 \* state of politeness_policy.py RobotsParser
    \* ---- PageFetcher.fetch_with_retry and fetch (FetchSpec) ----
    max_retries,        \* PageFetcher.max_retries
    url_ok,             \* whether urlparse(url) accepts the URL (else ValueError)
    rattempt,           \* fetch_with_retry: the loop variable attempt
    rsleeps,            \* fetch_with_retry: durations of its time.sleep calls
    robots_ok,          \* what is_allowed_by_robots(url) answers for the URL
    fpc,                \* position inside fetch
    attempt,            \* the local variable attempt
    gets,               \* outcomes of the HTTP GETs issued, in order
    sleeps,             \* durations of the time.sleep calls, in order
    result,             \* what fetch returned
    \* ---- PolitenessPolicy.respect_delay (PoliteSpec) ----
    now,                \* time.time(), in seconds
    last_access_times,  \* PolitenessPolicy.last_access_times, a dict host -> time
    ppc,                \* per caller: position inside respect_delay
    phost,              \* per caller: the host of its URL
    current_time,       \* per caller: the local variable current_time
    wake,               \* per caller: when its time.sleep ends
    fetch_starts,       \* per host: the times at which respect_delay returned
    calls,              \* number of respect_delay calls made so far
    \* ---- the robots caches (RobotsSpec) ----
    impl,               \* which class answers: "PageFetcher" or "PolitenessPolicy"
    robots_cache,       \* self.robots_cache, a dict host -> parser object
    cache_status,       \* per cached host: the outcome of the request that filled it
    robots_requests,    \* per host: number of requests for its robots.txt
    overlapped,         \* per host: a lookup missed while another caller was resolving it
    qpc,                \* per caller: position inside the query
    qurl,               \* per caller: the URL asked about
    answer,             \* per caller: what its last query returned
    used,               \* per caller: the outcome of the robots.txt request its answer rests on
    nqueries,           \* number of queries started so far
    \* ---- CrawlerManager (CrawlSpec) ----
    start_urls,         \* CrawlerManager.start_urls, the seed list
    links,              \* the web: the links found on each page, in document order
    robots_up,          \* the web: whether the host's robots.txt can be fetched
    url_queue,          \* CrawlerManager.url_queue (queue.Queue), oldest first
    unfinished_tasks,   \* Queue.unfinished_tasks
    crawled_urls,       \* CrawlerManager.crawled_urls
    max_workers,        \* CrawlerManager.max_workers
    mgr,                \* position of start_crawl
    spawned,            \* number of threads started
    joined,             \* number of threads joined
    wpc,                \* per worker: position inside worker / crawl
    cur,                \* per worker: the local variable url
    todo,               \* per worker: the new_urls not yet looked at
    fetch_count,        \* per URL: number of calls of page_fetcher.fetch(url)
    fetch_failed,       \* some call of page_fetcher.fetch returned no content
    waited,             \* the URLs politeness_policy.enforce(url) returned for
    robots_checked,     \* the URLs can_crawl(url) was called for
    fetched_ok,         \* the URLs page_fetcher.fetch(url) returned content for
    \* ---- PageFetcher.crawl (DepthSpec) ----
    max_depth,          \* the parameter max_depth
    site,               \* the web: the links found on each page, made absolute
    urls_to_visit,      \* the local list urls_to_visit of (url, depth) pairs
    visited_urls,       \* PageFetcher.visited_urls
    fetched_at,         \* the (url, depth) pairs self.fetch was called for
    \* ---- the two extract_links (LinksSpec) ----
    base_url,           \* the URL of the page
    hrefs,              \* the href values of the page's anchors, in document order
    ce_links,           \* what ContentExtractor.extract_links returned
    crawler_links,      \* what Crawler.extract_links returned, as iterated
    \* ---- the caller of start_crawl (ManagerSpec) ----
    stop_signal,        \* the caller has asked the crawl to stop
    \* ---- one RobotsParser and one PolitenessPolicy, many hosts (ScopeSpec) ----
    robots_parser,      \* the RobotsParser of robots_parser.py (rules, crawl_delay)
    robots_fetched,     \* the hosts fetch_robots has parsed the robots.txt of
    host_access,        \* per host (scheme, authority): time of the last access
    \* ---- the API key decorator and its endpoints (ApiSpec) ----
    rate_limit_tracker, \* per API key: the list of the times of its requests
    arrivals,           \* number of requests received so far
    hpc,                \* per handler thread: position inside the request
    api_key,            \* per handler: the X-API-Key header ("" when absent)
    endpoint,           \* per handler: the route of the request
    req_time,           \* per handler: current_time of rate_limit_check
    request_times,      \* per handler: the local list request_times
    response,           \* per handler: the status code answered
    touched,            \* per handler: the request has entered rate_limit_check
    accounted,          \* per handler: the request has stored its timestamp
    accepted,           \* per key and time: requests rate_limit_check let pass
                        \* since the last reset of the key
    \* ---- the single-host Crawler of robots_parser.py (CrawlerSpec) ----
    web,                \* the link graph of the site
    robots_rules,       \* Crawler.robots_parser after __init__
    to_crawl,           \* Crawler.to_crawl
    crawler_visited,    \* Crawler.visited_urls
    pages_crawled,      \* the local pages_crawled of start_crawling
    max_pages,          \* the parameter max_pages
    cpc,                \* position of start_crawling
    runs,               \* number of calls of start_crawling
    recrawled,          \* crawl was called on a URL that was in visited_urls
    after_ok            \* the last call of crawl was answered 200

parseVars == <<robots_text, agent, rp, pp>>
fetchVars == <<max_retries, url_ok, rattempt, rsleeps, robots_ok, fpc, attempt, gets, sleeps, result>>
politeVars == <<now, last_access_times, ppc, phost, current_time, wake, fetch_starts, calls>>
robotsVars == <<impl, robots_cache, cache_status, robots_requests, overlapped,
                qpc, qurl, answer, used, nqueries>>
crawlGhosts == <<waited, robots_checked, fetched_ok>>
crawlVars == <<max_workers, start_urls, links, robots_up, url_queue, unfinished_tasks, crawled_urls,
               mgr, spawned, joined, wpc, cur, todo, fetch_count, fetch_failed,
               crawlGhosts>>
depthVars == <<max_depth, site, urls_to_visit, visited_urls, fetched_at>>
linksVars == <<base_url, hrefs, ce_links, crawler_links>>
cancelVars == <<stop_signal>>
scopeVars == <<robots_parser, robots_fetched, host_access>>
crawlerVars == <<web, robots_rules, to_crawl, crawler_visited, pages_crawled, max_pages, cpc,
                 runs, recrawled, after_ok>>
apiVars == <<rate_limit_tracker, arrivals, hpc, api_key, endpoint, req_time,
             request_times, response, touched, accounted, accepted>>
vars == <<parseVars, fetchVars, politeVars, robotsVars, crawlVars, depthVars, linksVars,
    cancelVars, scopeVars, apiVars, crawlerVars>>
notParse == <<fetchVars, politeVars, robotsVars, crawlVars, depthVars, linksVars,
    cancelVars, scopeVars, apiVars, crawlerVars>>
notFetch == <<parseVars, politeVars, robotsVars, crawlVars, depthVars, linksVars,
    cancelVars, scopeVars, apiVars, crawlerVars>>
notPolite == <<parseVars, fetchVars, robotsVars, crawlVars, depthVars, linksVars,
    cancelVars, scopeVars, apiVars, crawlerVars>>
notRobots == <<parseVars, fetchVars, politeVars, crawlVars, depthVars, linksVars,
    cancelVars, scopeVars, apiVars, crawlerVars>>
notDepth == <<parseVars, fetchVars, politeVars, robotsVars, crawlVars, linksVars,
    cancelVars, scopeVars, apiVars, crawlerVars>>
notLinks == <<parseVars, fetchVars, politeVars, robotsVars, crawlVars, depthVars,
    cancelVars, scopeVars, apiVars, crawlerVars>>
crawlVarsButWpc == <<max_workers, start_urls, links, robots_up, url_queue, unfinished_tasks,
                     crawled_urls, mgr, spawned, joined, cur, todo, fetch_count,
                     fetch_failed>>
notCancel == <<parseVars, fetchVars, politeVars, robotsVars, crawlVars, depthVars,
               linksVars, scopeVars, apiVars, crawlerVars>>
notCrawler == <<parseVars, fetchVars, politeVars, robotsVars, crawlVars, depthVars,
                linksVars, cancelVars, scopeVars, apiVars>>
\* ApiSpec also reads the clock
notApi == <<parseVars, fetchVars, robotsVars, crawlVars, depthVars, linksVars, cancelVars,
            scopeVars, crawlerVars, last_access_times, ppc, phost, current_time, wake,
            fetch_starts, calls>>
\* ScopeSpec also writes now and last_access_times
notScope == <<parseVars, fetchVars, robotsVars, crawlVars, depthVars, linksVars, cancelVars,
              apiVars, crawlerVars, ppc, phost, current_time, wake, fetch_starts, calls>>
\* the crawl manager also writes last_access_times
notCrawl == <<parseVars, fetchVars, robotsVars, depthVars, linksVars, cancelVars,
              scopeVars, apiVars, crawlerVars, now, ppc, phost, current_time, wake, fetch_starts, calls>>

(***************************************************************************)
(* Text.  A path is a sequence of characters; str.startswith and           *)
(* re.match(re.escape(p), s) are both the prefix test.                     *)
(***************************************************************************)
IsPrefix(p, s) == Len(p) <= Len(s) /\ SubSeq(s, 1, Len(p)) = p

PathRoot == <<"/">>
PathAdm == <<"/", "a", "d", "m">>
PathAdmin == <<"/", "a", "d", "m", "i", "n">>
PathAdminX == <<"/", "a", "d", "m", "i", "n", "/", "x">>
PathAdministrator == <<"/", "a", "d", "m", "i", "n", "i", "s", "t", "r", "a", "t", "o", "r">>
PathXAdmin == <<"/", "x", "/", "a", "d", "m", "i", "n">>
PathPub == <<"/", "p", "u", "b">>
Paths == {PathRoot, PathAdm, PathAdmin, PathAdminX, PathAdministrator, PathXAdmin, PathPub}

(***************************************************************************)
(* robots.txt lines.  A line is modelled after line.strip() by the         *)
(* directive its lower-cased text starts with (key) and the text after the *)
(* first colon, stripped (val):                                            *)
(*   "user-agent"  val = the colon-separated parts of the agent token      *)
(*   "disallow", "allow"  val = a path (<<>> is the empty value)           *)
(*   "crawl-delay" val = the token after the colon                         *)
(*   "sitemap"     val = the sitemap URL                                   *)
(*   "#"           a blank line or a comment,  "junk" anything else        *)
(***************************************************************************)
Line(k, v) == [key |-> k, val |-> v]

LineAlphabet ==
    { Line("user-agent", <<"*">>), Line("user-agent", <<"bot">>),
      Line("user-agent", <<"other">>),
      Line("disallow", PathAdmin), Line("disallow", PathPub), Line("disallow", <<>>),
      Line("allow", PathAdminX),
      Line("crawl-delay", "5"), Line("crawl-delay", "1.5"),
      Line("crawl-delay", "abc"),
      Line("sitemap", "http://h/sitemap.xml"),
      Line("#", ""), Line("junk", "") }

\* int(token): the tokens Python's int() accepts, and their values
IntTokens == {"1", "5"}
\* float(token): the tokens Python's float() accepts
FloatTokens == {"1", "5", "1.5"}
\* the value of a numeric token, in tenths of a second
Tenths(t) == CASE t = "1" -> 10 [] t = "5" -> 50 [] t = "1.5" -> 15 [] OTHER -> 0

NoDelay == -1   \* crawl_delay = None

(***************************************************************************)
(* crawler/robots_parser.py: class RobotsParser                            *)
(***************************************************************************)
RpNew == [parsed |-> FALSE, cur |-> "", disallow |-> <<>>, allow |-> <<>>,
          crawl_delay |-> NoDelay, sitemaps |-> <<>>, raised |-> FALSE]

\* _parse_rule(line)
RpParseRule(st, line) ==
    CASE line.key = "disallow" ->
            IF line.val # <<>> THEN [st EXCEPT !.disallow = Append(@, line.val)] ELSE st
      [] line.key = "allow" ->
            IF line.val # <<>> THEN [st EXCEPT !.allow = Append(@, line.val)] ELSE st
      [] line.key = "crawl-delay" ->
            IF line.val \in IntTokens
            THEN [st EXCEPT !.crawl_delay = Tenths(line.val)]
            ELSE [st EXCEPT !.raised = TRUE]          \* int() raises ValueError
      [] OTHER -> st

\* the group test of parse_robots, line 36
RpGroupApplies(st, ua) == st.cur # "" /\ (ua = "*" \/ st.cur = ua)

\* one iteration of the loop of parse_robots
RpParseLine(st, line, ua) ==
    IF st.raised \/ line.key = "#" THEN st
    ELSE IF line.key = "user-agent"
         THEN [st EXCEPT !.cur = line.val[1]]         \* line.split(':')[1]
    ELSE IF RpGroupApplies(st, ua) THEN RpParseRule(st, line)
    ELSE IF line.key = "sitemap"
         THEN [st EXCEPT !.sitemaps = Append(@, line.val)]
    ELSE st

RECURSIVE RpParseFrom(_, _, _, _)
RpParseFrom(st, text, i, ua) ==
    IF i > Len(text) THEN st
    ELSE RpParseFrom(RpParseLine(st, text[i], ua), text, i + 1, ua)

\* parse_robots(robots_text) on a parser in state st
parse_robots(st, text, ua) ==
    [RpParseFrom([st EXCEPT !.cur = ""], text, 1, ua) EXCEPT !.parsed = TRUE]

RECURSIVE AnyPrefix(_, _)
AnyPrefix(rules, path) ==
    IF rules = <<>> THEN FALSE
    ELSE IsPrefix(Head(rules), path) \/ AnyPrefix(Tail(rules), path)

\* is_allowed(url), on the path of the URL
is_allowed(st, path) ==
    IF AnyPrefix(st.allow, path) THEN TRUE
    ELSE IF AnyPrefix(st.disallow, path) THEN FALSE
    ELSE TRUE

(***************************************************************************)
(* crawler/crawler_policies/politeness_policy.py: class RobotsParser       *)
(***************************************************************************)
PpNew == [parsed |-> FALSE, applicable |-> "unbound", disallowed_paths |-> <<>>,
          crawl_delay |-> NoDelay, raised |-> FALSE]

\* one iteration of the loop of parse_robots_txt
PpParseLine(st, line, ua) ==
    IF st.raised \/ line.key = "#" THEN st
    ELSE IF line.key = "user-agent"
         THEN [st EXCEPT !.applicable =
                  IF line.val = <<"*">> \/ line.val = <<ua>> THEN "yes" ELSE "no"]
    ELSE IF st.applicable = "unbound"
         THEN [st EXCEPT !.raised = TRUE]             \* UnboundLocalError
    ELSE IF st.applicable = "yes" /\ line.key = "disallow"
         THEN IF line.val # <<>>
              THEN [st EXCEPT !.disallowed_paths = Append(@, line.val)] ELSE st
    ELSE IF st.applicable = "yes" /\ line.key = "crawl-delay"
         THEN IF line.val \in FloatTokens
              THEN [st EXCEPT !.crawl_delay = Tenths(line.val)]
              ELSE [st EXCEPT !.raised = TRUE]        \* float() raises ValueError
    ELSE st

RECURSIVE PpParseFrom(_, _, _, _)
PpParseFrom(st, text, i, ua) ==
    IF i > Len(text) THEN st
    ELSE PpParseFrom(PpParseLine(st, text[i], ua), text, i + 1, ua)

\* parse_robots_txt(robots_txt_content)
parse_robots_txt(st, text, ua) ==
    [PpParseFrom(st, text, 1, ua) EXCEPT !.parsed = TRUE]

\* can_fetch(user_agent, url), on the path of the URL
can_fetch(st, path) == ~AnyPrefix(st.disallowed_paths, path)

(***************************************************************************)
(* ParseSpec: both parsers applied to every robots.txt of at most MaxLines *)
(* lines over LineAlphabet, for both agent names.                          *)
(***************************************************************************)
MaxLines == 4
Agents == {"*", "bot"}
Texts == UNION {[1..n -> LineAlphabet] : n \in 0..MaxLines}

ParseInit ==
    /\ robots_text \in Texts
    /\ agent \in Agents
    /\ rp = RpNew
    /\ pp = PpNew

ParseIdle ==
    /\ robots_text = <<>>
    /\ agent = "*"
    /\ rp = RpNew
    /\ pp = PpNew

\* RobotsParser(user_agent).parse_robots(text)   (robots_parser.py)
RpParse ==
    /\ ~rp.parsed
    /\ rp' = parse_robots(rp, robots_text, agent)
    /\ UNCHANGED <<robots_text, agent, pp>>
    /\ UNCHANGED notParse

\* RobotsParser(url, user_agent).parse_robots_txt(text)   (politeness_policy.py)
PpParse ==
    /\ ~pp.parsed
    /\ pp' = parse_robots_txt(pp, robots_text, agent)
    /\ UNCHANGED <<robots_text, agent, rp>>
    /\ UNCHANGED notParse

(***************************************************************************)
(* FetchSpec: PageFetcher.fetch_with_retry(url) calling PageFetcher.fetch, *)
(* page_fetcher.py lines 124-137 and 21-43.  fetch catches the exceptions  *)
(* of requests; it raises when urlparse rejects the URL (line 51), and     *)
(* only then does fetch_with_retry call it again.                          *)
(***************************************************************************)
MaxRetriesCfg == 3      \* max_retries is drawn from 0..MaxRetriesCfg

\* what one requests.get can end in: a response with a status, or an exception
\* (exc = "none": a response with that status; otherwise status is 0)
Statuses == {200, 204, 304, 404, 500}
Exceptions == {"Timeout", "ConnectionError", "TooManyRedirects"}
Outcomes == {[exc |-> "none", status |-> c] : c \in Statuses}
            \cup {[exc |-> e, status |-> 0] : e \in Exceptions}

\* response.raise_for_status() raises HTTPError for 4xx and 5xx
RaisesForStatus(o) == o.exc = "none" /\ o.status >= 400 /\ o.status < 600
\* except (RequestException, Timeout, TooManyRedirects), line 39
AttemptFails(o) == o.exc # "none" \/ RaisesForStatus(o)
\* response.text
ResponseText(o) == IF o.status = 200 THEN "html" ELSE ""

RECURSIVE Pow2(_)
Pow2(n) == IF n <= 0 THEN 1 ELSE 2 * Pow2(n - 1)

\* time.sleep(2 ** attempt), line 42, attempt already incremented
LinearBackoff(a) == 2 * a
Backoff(a) == Pow2(a)

\* while attempt < self.max_retries, line 32
LoopOneMore(a, m) == a <= m
LoopTest(a, m) == a < m

\* retry_count, the default of fetch_with_retry
RetryCount == 3
\* time.sleep(2 ** attempt), line 136
RetryBackoff(a) == Pow2(a)

FetchInit ==
    /\ max_retries \in 0..MaxRetriesCfg
    /\ url_ok \in BOOLEAN
    /\ rattempt = 0
    /\ rsleeps = <<>>
    /\ robots_ok \in BOOLEAN
    /\ fpc = "start"
    /\ attempt = 0
    /\ gets = <<>>
    /\ sleeps = <<>>
    /\ result = "pending"

FetchIdle ==
    /\ max_retries = 0
    /\ url_ok = TRUE
    /\ rattempt = 0
    /\ rsleeps = <<>>
    /\ robots_ok = TRUE
    /\ fpc = "returned"
    /\ attempt = 0
    /\ gets = <<>>
    /\ sleeps = <<>>
    /\ result = "None"

\* line 133 and lines 27-32: fetch is called; the robots check (which raises
\* on a URL urlparse rejects), attempt = 0, the first loop test
FetchStart ==
    /\ fpc = "start"
    /\ IF ~url_ok
       THEN fpc' = "retry_sleep" /\ result' = result /\ attempt' = attempt
       ELSE /\ attempt' = 0
            /\ IF robots_ok /\ LoopTest(0, max_retries)
               THEN fpc' = "get" /\ result' = result
               ELSE fpc' = "returned" /\ result' = "None"
    /\ UNCHANGED <<max_retries, url_ok, rattempt, rsleeps, robots_ok, gets, sleeps>>
    /\ UNCHANGED notFetch

\* lines 33-41: one requests.get and raise_for_status
FetchGet(o) ==
    /\ fpc = "get"
    /\ gets' = Append(gets, o)
    /\ IF AttemptFails(o)
       THEN /\ attempt' = attempt + 1
            /\ fpc' = "sleep"
            /\ result' = result
       ELSE /\ attempt' = attempt
            /\ fpc' = "returned"
            /\ result' = ResponseText(o)
    /\ UNCHANGED <<max_retries, url_ok, rattempt, rsleeps, robots_ok, sleeps>>
    /\ UNCHANGED notFetch

\* line 42, then the loop test of line 32 and the return of line 43
FetchSleep ==
    /\ fpc = "sleep"
    /\ sleeps' = Append(sleeps, Backoff(attempt))
    /\ IF LoopTest(attempt, max_retries)
       THEN fpc' = "get" /\ result' = result
       ELSE fpc' = "returned" /\ result' = "None"
    /\ UNCHANGED <<max_retries, url_ok, rattempt, rsleeps, robots_ok, attempt, gets>>
    /\ UNCHANGED notFetch

\* lines 134-137: fetch raised; sleep, then call fetch again or give up
FetchRetrySleep ==
    /\ fpc = "retry_sleep"
    /\ rsleeps' = Append(rsleeps, RetryBackoff(rattempt))
    /\ rattempt' = rattempt + 1
    /\ IF rattempt + 1 < RetryCount
       THEN fpc' = "start" /\ result' = result
       ELSE fpc' = "returned" /\ result' = "None"
    /\ UNCHANGED <<max_retries, url_ok, robots_ok, attempt, gets, sleeps>>
    /\ UNCHANGED notFetch

(***************************************************************************)
(* PoliteSpec: PolitenessPolicy.respect_delay called by NumCallers threads *)
(* (the workers of the crawl manager), politeness_policy.py lines 48-66.   *)
(* Time advances in whole seconds; a sleeping caller wakes when its sleep  *)
(* is over.  No lock is taken anywhere in respect_delay.                   *)
(***************************************************************************)
NumCallers == 2
MaxCalls == 3
MaxTime == 4
Delay == 2              \* politeness_delay
Hosts == {"h", "g"}
Callers == 1..NumCallers

PoliteInit ==
    /\ now = 0
    /\ last_access_times = <<>>
    /\ ppc = [c \in Callers |-> "idle"]
    /\ phost = [c \in Callers |-> "h"]
    /\ current_time = [c \in Callers |-> 0]
    /\ wake = [c \in Callers |-> 0]
    /\ fetch_starts = [h \in Hosts |-> <<>>]
    /\ calls = 0

PoliteIdle ==
    /\ now = 0
    /\ last_access_times = <<>>
    /\ ppc = <<>>
    /\ phost = <<>>
    /\ current_time = <<>>
    /\ wake = <<>>
    /\ fetch_starts = <<>>
    /\ calls = 0

\* lines 59-64: the time to sleep, given the dict and the time read at line 57
SleepTime(lat, h, ct, delay) ==
    IF h \in DOMAIN lat /\ ct - lat[h] < delay THEN delay - (ct - lat[h]) ELSE 0

\* last_access_times[host] = value
DictSet(d, k, v) == [x \in DOMAIN d \cup {k} |-> IF x = k THEN v ELSE d[x]]

\* lines 55-64: read the clock, look the host up, start the sleep if one is due
RespectDelayEnter(c, h) ==
    /\ ppc[c] = "idle"
    /\ calls < MaxCalls
    /\ calls' = calls + 1
    /\ phost' = [phost EXCEPT ![c] = h]
    /\ current_time' = [current_time EXCEPT ![c] = now]
    /\ wake' = [wake EXCEPT ![c] = now + SleepTime(last_access_times, h, now, Delay)]
    /\ ppc' = [ppc EXCEPT ![c] = "sleep"]
    /\ UNCHANGED <<now, last_access_times, fetch_starts>>
    /\ UNCHANGED notPolite

\* line 66 and the return: the caller's fetch starts now
RespectDelayReturn(c) ==
    /\ ppc[c] = "sleep"
    /\ now >= wake[c]
    /\ last_access_times' = DictSet(last_access_times, phost[c], current_time[c])
    /\ fetch_starts' = [fetch_starts EXCEPT ![phost[c]] = Append(@, now)]
    /\ ppc' = [ppc EXCEPT ![c] = "idle"]
    /\ UNCHANGED <<now, phost, current_time, wake, calls>>
    /\ UNCHANGED notPolite

\* one second passes; a caller whose sleep is over returns first
Tick ==
    /\ now < MaxTime
    /\ \A c \in Callers : ppc[c] = "sleep" => wake[c] > now
    /\ now' = now + 1
    /\ UNCHANGED <<last_access_times, ppc, phost, current_time, wake, fetch_starts, calls>>
    /\ UNCHANGED notPolite

PoliteNext ==
    \/ \E c \in Callers, h \in Hosts : RespectDelayEnter(c, h)
    \/ \E c \in Callers : RespectDelayReturn(c)
    \/ Tick

(***************************************************************************)
(* RobotsSpec: the two robots caches, queried by NumQueriers threads.      *)
(*   PageFetcher.is_allowed_by_robots     page_fetcher.py lines 45-65      *)
(*   PolitenessPolicy.can_fetch           politeness_policy.py lines 21-46 *)
(* Neither takes a lock.  Every request for a robots.txt can end in a      *)
(* response (200, 403, 404, 503) or in a network error.                    *)
(***************************************************************************)
NumQueriers == 2
MaxQueries == 3
Queriers == 1..NumQueriers
Impls == {"PageFetcher", "PolitenessPolicy"}
RobotsAgent == "bot"

RobotsStatuses == {200, 403, 404, 503}
RobotsOutcomes == {[exc |-> "none", status |-> c] : c \in RobotsStatuses}
                  \cup {[exc |-> "ConnectionError", status |-> 0]}

\* the robots.txt each host serves when it answers 200
RobotsFile(h) ==
    IF h = "h"
    THEN <<Line("user-agent", <<"*">>), Line("disallow", PathAdmin)>>
    ELSE <<Line("user-agent", <<"*">>), Line("crawl-delay", "5"), Line("disallow", PathPub)>>

QueryUrls == {[host |-> h, path |-> p] : h \in Hosts, p \in {PathAdminX, PathPub}}

\* urllib.robotparser.RobotFileParser as used by is_allowed_by_robots:
\* the object after rp.read() got outcome o (a response; an URLError raises)
StdRules(text) ==
    LET ds == SelectSeq(text, LAMBDA l : l.key = "disallow" /\ l.val # <<>>)
    IN [k \in 1..Len(ds) |-> ds[k].val]
StdRead(o, text) ==
    [disallow_all |-> o.status \in {401, 403},
     allow_all |-> o.status >= 400 /\ o.status < 500 /\ o.status \notin {401, 403},
     last_checked |-> o.status = 200,
     rules |-> IF o.status = 200 THEN StdRules(text) ELSE <<>>]
\* rp.can_fetch(user_agent, url)
StdCanFetch(r, path) ==
    IF r.disallow_all THEN FALSE
    ELSE IF r.allow_all THEN TRUE
    ELSE IF ~r.last_checked THEN FALSE
    ELSE ~AnyPrefix(r.rules, path)

\* RobotsParser(robots_url, user_agent) of politeness_policy.py: the object
\* constructed when the request got outcome o; raised = RuntimeError
PolConstructParser(o, text) ==
    IF o.exc # "none" THEN [PpNew EXCEPT !.raised = TRUE]
    ELSE IF o.status = 200 THEN parse_robots_txt(PpNew, text, RobotsAgent)
    ELSE PpNew

\* the answer of a cached object
CachedAnswer(im, entry, path) ==
    IF im = "PageFetcher" THEN StdCanFetch(entry, path) ELSE can_fetch(entry, path)

RobotsInit ==
    /\ impl \in Impls
    /\ robots_cache = <<>>
    /\ cache_status = <<>>
    /\ robots_requests = [h \in Hosts |-> 0]
    /\ overlapped = [h \in Hosts |-> FALSE]
    /\ qpc = [q \in Queriers |-> "idle"]
    /\ qurl = [q \in Queriers |-> [host |-> "h", path |-> PathPub]]
    /\ answer = [q \in Queriers |-> TRUE]
    /\ used = [q \in Queriers |-> 200]
    /\ nqueries = 0

RobotsIdle ==
    /\ impl = "PageFetcher"
    /\ robots_cache = <<>>
    /\ cache_status = <<>>
    /\ robots_requests = <<>>
    /\ overlapped = <<>>
    /\ qpc = <<>>
    /\ qurl = <<>>
    /\ answer = <<>>
    /\ used = <<>>
    /\ nqueries = 0

\* the cache test (page_fetcher.py 51-54, politeness_policy.py 31-35):
\* a hit answers from the cached object, a miss goes on to request robots.txt
RobotsLookup(q, u) ==
    /\ qpc[q] = "idle"
    /\ nqueries < MaxQueries
    /\ nqueries' = nqueries + 1
    /\ qurl' = [qurl EXCEPT ![q] = u]
    /\ IF u.host \in DOMAIN robots_cache
       THEN /\ answer' = [answer EXCEPT ![q] =
                             CachedAnswer(impl, robots_cache[u.host], u.path)]
            /\ used' = [used EXCEPT ![q] = cache_status[u.host]]
            /\ UNCHANGED <<qpc, overlapped>>
       ELSE /\ qpc' = [qpc EXCEPT ![q] = "resolve"]
            /\ overlapped' = [overlapped EXCEPT ![u.host] =
                  @ \/ \E r \in Queriers : qpc[r] = "resolve" /\ qurl[r].host = u.host]
            /\ UNCHANGED <<answer, used>>
    /\ UNCHANGED <<impl, robots_cache, cache_status, robots_requests>>
    /\ UNCHANGED notRobots

\* page_fetcher.py 56-65: rp.read(), then cache the object and answer from
\* it; an exception of read() answers True and caches nothing
PageFetcherResolve(q, o) ==
    /\ impl = "PageFetcher"
    /\ qpc[q] = "resolve"
    /\ robots_requests' = [robots_requests EXCEPT ![qurl[q].host] = @ + 1]
    /\ used' = [used EXCEPT ![q] = o.status]
    /\ qpc' = [qpc EXCEPT ![q] = "idle"]
    /\ IF o.exc # "none"
       THEN /\ answer' = [answer EXCEPT ![q] = TRUE]
            /\ UNCHANGED <<robots_cache, cache_status>>
       ELSE LET r == StdRead(o, RobotsFile(qurl[q].host))
            IN /\ robots_cache' = DictSet(robots_cache, qurl[q].host, r)
               /\ cache_status' = DictSet(cache_status, qurl[q].host, o.status)
               /\ answer' = [answer EXCEPT ![q] = StdCanFetch(r, qurl[q].path)]
    /\ UNCHANGED <<impl, overlapped, qurl, nqueries>>
    /\ UNCHANGED notRobots

\* politeness_policy.py 37-46: construct the parser (which requests and
\* parses robots.txt), cache it and answer from it; a RuntimeError of the
\* constructor answers True and caches nothing
PolitenessResolve(q, o) ==
    /\ impl = "PolitenessPolicy"
    /\ qpc[q] = "resolve"
    /\ robots_requests' = [robots_requests EXCEPT ![qurl[q].host] = @ + 1]
    /\ used' = [used EXCEPT ![q] = o.status]
    /\ qpc' = [qpc EXCEPT ![q] = "idle"]
    /\ LET r == PolConstructParser(o, RobotsFile(qurl[q].host))
       IN IF r.raised
          THEN /\ answer' = [answer EXCEPT ![q] = TRUE]
               /\ UNCHANGED <<robots_cache, cache_status>>
          ELSE /\ robots_cache' = DictSet(robots_cache, qurl[q].host, r)
               /\ cache_status' = DictSet(cache_status, qurl[q].host, o.status)
               /\ answer' = [answer EXCEPT ![q] = can_fetch(r, qurl[q].path)]
    /\ UNCHANGED <<impl, overlapped, qurl, nqueries>>
    /\ UNCHANGED notRobots

RobotsNext ==
    \/ \E q \in Queriers, u \in QueryUrls : RobotsLookup(q, u)
    \/ \E q \in Queriers, o \in RobotsOutcomes : PageFetcherResolve(q, o)
    \/ \E q \in Queriers, o \in RobotsOutcomes : PolitenessResolve(q, o)

(***************************************************************************)
(* CrawlSpec: CrawlerManager, crawler_manager.py.  start_crawl starts      *)
(* NumWorkers threads running worker() and joins them.  The collaborators  *)
(* are called by the names the manager uses:                               *)
(*   politeness_policy.enforce(url)   PolitenessPolicy.respect_delay       *)
(*   robots_parser.parse(url)         RobotsParser.fetch_robots of the host*)
(*   page_fetcher.fetch(url)          PageFetcher.fetch                    *)
(*   content_extractor.extract(page)  the links of the page                *)
(* The web is one host serving the pages /a, /b and /private/c; a seed     *)
(* can also be a string that is not a URL.  A thread ended by an exception *)
(* is at "dead".                                                           *)
(***************************************************************************)
NumWorkers == 2
Workers == 1..NumWorkers

PathA == <<"/", "a">>
PathB == <<"/", "b">>
PathPrivate == <<"/", "p", "r", "i", "v", "a", "t", "e">>
PathPrivateC == <<"/", "p", "r", "i", "v", "a", "t", "e", "/", "c">>

\* "x" is a seed urlparse rejects with ValueError (such as "http://[h/a");
\* "b#f" is the URL of /b with the fragment f
Urls == {"a", "b", "c", "x", "b#f"}
UrlParses(u) == u # "x"
\* urlparse(url).path and urlparse(url).netloc
UrlPath(u) == CASE u = "a" -> PathA [] u = "b" -> PathB [] u = "c" -> PathPrivateC
                [] u = "b#f" -> PathB
                [] OTHER -> <<>>
UrlHost(u) == "h"

\* the robots.txt of the host: User-agent: * / Disallow: /private
CrawlRobotsFile == <<Line("user-agent", <<"*">>), Line("disallow", PathPrivate)>>

NoLinks == [u \in Urls |-> <<>>]
\* /a links to /b and /private/c
GraphScenarioA == [NoLinks EXCEPT !["a"] = <<"b", "c">>]
\* /a links to /b twice, /b links back to /a
GraphDupCycle == [NoLinks EXCEPT !["a"] = <<"b", "b">>, !["b"] = <<"a">>]
LinkGraphs == {NoLinks, GraphScenarioA, GraphDupCycle}
SeedLists == {<<>>, <<"a">>, <<"a", "a">>, <<"c", "a">>, <<"x", "x", "a">>}

\* the manager after __init__, constructed with max_workers = n
CrawlInitWith(n) ==
    /\ max_workers = n
    /\ start_urls \in SeedLists
    /\ links \in LinkGraphs
    /\ robots_up \in BOOLEAN
    /\ url_queue = start_urls
    /\ unfinished_tasks = Len(start_urls)
    /\ crawled_urls = {}
    /\ mgr = "starting"
    /\ spawned = 0
    /\ joined = 0
    /\ wpc = [w \in 1..n |-> "unstarted"]
    /\ cur = [w \in 1..n |-> "a"]
    /\ todo = [w \in 1..n |-> <<>>]
    /\ fetch_count = [u \in Urls |-> 0]
    /\ fetch_failed = FALSE
    /\ waited = {}
    /\ robots_checked = {}
    /\ fetched_ok = {}

CrawlInit == CrawlInitWith(NumWorkers)

CrawlIdle ==
    /\ max_workers = 0
    /\ start_urls = <<>>
    /\ links = <<>>
    /\ robots_up = TRUE
    /\ url_queue = <<>>
    /\ unfinished_tasks = 0
    /\ crawled_urls = {}
    /\ mgr = "complete"
    /\ spawned = 0
    /\ joined = 0
    /\ wpc = <<>>
    /\ cur = <<>>
    /\ todo = <<>>
    /\ fetch_count = <<>>
    /\ fetch_failed = FALSE
    /\ waited = {}
    /\ robots_checked = {}
    /\ fetched_ok = {}

\* RobotsParser().fetch_robots(base_url): the rules of the host, empty when
\* robots.txt cannot be fetched
ResolveRobots(up) ==
    IF up THEN parse_robots(RpNew, CrawlRobotsFile, "*") ELSE RpNew

\* can_crawl(url), lines 24-28
CanCrawlAlways(u, up) == TRUE
can_crawl(u, up) == is_allowed(ResolveRobots(up), UrlPath(u))

\* PageFetcher.is_allowed_by_robots(url) at the head of fetch; a robots.txt
\* that cannot be fetched raises in rp.read() and the answer is True
FetcherAllows(u, up) ==
    IF up THEN StdCanFetch(StdRead([exc |-> "none", status |-> 200], CrawlRobotsFile),
                           UrlPath(u))
    ELSE TRUE

\* start_crawl lines 66-69: start the next thread
StartThread ==
    /\ mgr = "starting"
    /\ spawned < max_workers
    /\ spawned' = spawned + 1
    /\ wpc' = [wpc EXCEPT ![spawned + 1] = "loop"]
    /\ mgr' = IF spawned + 1 = max_workers THEN "joining" ELSE "starting"
    /\ UNCHANGED <<max_workers, start_urls, links, robots_up, url_queue, unfinished_tasks,
                   crawled_urls, joined, cur, todo, fetch_count, fetch_failed>>
    /\ UNCHANGED <<last_access_times, crawlGhosts, notCrawl>>

\* start_crawl lines 71-74: join the next thread, which has returned from
\* worker() or was ended by an exception; after the last, "Crawling complete."
JoinThread ==
    /\ mgr = "joining"
    /\ joined < max_workers
    /\ wpc[joined + 1] \in {"done", "dead"}
    /\ joined' = joined + 1
    /\ mgr' = IF joined + 1 = max_workers THEN "complete" ELSE "joining"
    /\ UNCHANGED <<max_workers, start_urls, links, robots_up, url_queue, unfinished_tasks,
                   crawled_urls, spawned, wpc, cur, todo, fetch_count, fetch_failed>>
    /\ UNCHANGED <<last_access_times, crawlGhosts, notCrawl>>

\* a worker that calls get() without testing the queue first
WorkerLoopNoTest(w) ==
    /\ wpc[w] = "loop"
    /\ wpc' = [wpc EXCEPT ![w] = "get"]
    /\ UNCHANGED crawlVarsButWpc
    /\ UNCHANGED <<last_access_times, crawlGhosts, notCrawl>>

\* worker line 31: while not self.url_queue.empty()
WorkerLoop(w) ==
    /\ wpc[w] = "loop"
    /\ wpc' = [wpc EXCEPT ![w] = IF url_queue = <<>> THEN "done" ELSE "get"]
    /\ UNCHANGED <<max_workers, start_urls, links, robots_up, url_queue, unfinished_tasks,
                   crawled_urls, mgr, spawned, joined, cur, todo, fetch_count,
                   fetch_failed>>
    /\ UNCHANGED <<last_access_times, crawlGhosts, notCrawl>>

\* a get() that hands out the newest entry instead of the oldest
WorkerGetLast(w) ==
    /\ wpc[w] = "get"
    /\ url_queue # <<>>
    /\ cur' = [cur EXCEPT ![w] = url_queue[Len(url_queue)]]
    /\ url_queue' = SubSeq(url_queue, 1, Len(url_queue) - 1)
    /\ wpc' = [wpc EXCEPT ![w] = "enforce"]
    /\ UNCHANGED <<max_workers, start_urls, links, robots_up, unfinished_tasks, crawled_urls,
                   mgr, spawned, joined, todo, fetch_count, fetch_failed>>
    /\ UNCHANGED <<last_access_times, crawlGhosts, notCrawl>>

\* worker line 32: url = self.url_queue.get(), which blocks on an empty queue
WorkerGet(w) ==
    /\ wpc[w] = "get"
    /\ url_queue # <<>>
    /\ cur' = [cur EXCEPT ![w] = Head(url_queue)]
    /\ url_queue' = Tail(url_queue)
    /\ wpc' = [wpc EXCEPT ![w] = "enforce"]
    /\ UNCHANGED <<max_workers, start_urls, links, robots_up, unfinished_tasks, crawled_urls,
                   mgr, spawned, joined, todo, fetch_count, fetch_failed>>
    /\ UNCHANGED <<last_access_times, crawlGhosts, notCrawl>>

\* worker line 35: the politeness wait, which records the access to the host.
\* respect_delay starts with urlparse(url) (politeness_policy.py line 55); its
\* ValueError is raised outside the try of line 38 and ends the thread.
WorkerEnforce(w) ==
    /\ wpc[w] = "enforce"
    /\ IF UrlParses(cur[w])
       THEN /\ last_access_times' = DictSet(last_access_times, UrlHost(cur[w]), now)
            /\ waited' = waited \cup {cur[w]}
            /\ wpc' = [wpc EXCEPT ![w] = "can_crawl"]
       ELSE /\ wpc' = [wpc EXCEPT ![w] = "dead"]
            /\ UNCHANGED <<last_access_times, waited>>
    /\ UNCHANGED <<robots_checked, fetched_ok>>
    /\ UNCHANGED crawlVarsButWpc
    /\ UNCHANGED notCrawl

\* worker line 37: if self.can_crawl(url)
WorkerCanCrawl(w) ==
    /\ wpc[w] = "can_crawl"
    /\ wpc' = [wpc EXCEPT ![w] = IF can_crawl(cur[w], robots_up) THEN "fetch"
                                 ELSE "task_done"]
    /\ robots_checked' = robots_checked \cup {cur[w]}
    /\ UNCHANGED crawlVarsButWpc
    /\ UNCHANGED <<last_access_times, waited, fetched_ok, notCrawl>>

\* crawl lines 46-50: fetch the page (ok: some attempt of the fetch succeeds)
\* and extract its links
WorkerFetch(w, ok) ==
    /\ wpc[w] = "fetch"
    /\ fetch_count' = [fetch_count EXCEPT ![cur[w]] = @ + 1]
    /\ IF FetcherAllows(cur[w], robots_up) /\ ok
       THEN /\ wpc' = [wpc EXCEPT ![w] = "mark"]
            /\ todo' = [todo EXCEPT ![w] = links[cur[w]]]
            /\ fetched_ok' = fetched_ok \cup {cur[w]}
            /\ UNCHANGED fetch_failed
       ELSE /\ wpc' = [wpc EXCEPT ![w] = "task_done"]
            /\ fetch_failed' = TRUE
            /\ UNCHANGED <<todo, fetched_ok>>
    /\ UNCHANGED <<max_workers, start_urls, links, robots_up, url_queue, unfinished_tasks,
                   crawled_urls, mgr, spawned, joined, cur>>
    /\ UNCHANGED <<last_access_times, waited, robots_checked, notCrawl>>

\* crawl lines 52-55: under the lock, add the URL to crawled_urls
WorkerMark(w) ==
    /\ wpc[w] = "mark"
    /\ crawled_urls' = crawled_urls \cup {cur[w]}
    /\ wpc' = [wpc EXCEPT ![w] = IF todo[w] = <<>> THEN "task_done" ELSE "push"]
    /\ UNCHANGED <<max_workers, start_urls, links, robots_up, url_queue, unfinished_tasks,
                   mgr, spawned, joined, cur, todo, fetch_count, fetch_failed>>
    /\ UNCHANGED <<last_access_times, crawlGhosts, notCrawl>>

\* the test of line 61
ShouldPush(u, crawled, queue) == u \notin crawled

\* crawl lines 59-62: under the lock, enqueue the next new URL unless crawled
WorkerPush(w) ==
    /\ wpc[w] = "push"
    /\ IF ShouldPush(Head(todo[w]), crawled_urls, url_queue)
       THEN /\ url_queue' = Append(url_queue, Head(todo[w]))
            /\ unfinished_tasks' = unfinished_tasks + 1
       ELSE UNCHANGED <<url_queue, unfinished_tasks>>
    /\ todo' = [todo EXCEPT ![w] = Tail(@)]
    /\ wpc' = [wpc EXCEPT ![w] = IF Tail(todo[w]) = <<>> THEN "task_done" ELSE "push"]
    /\ UNCHANGED <<max_workers, start_urls, links, robots_up, crawled_urls, mgr, spawned, joined,
                   cur, fetch_count, fetch_failed>>
    /\ UNCHANGED <<last_access_times, crawlGhosts, notCrawl>>

\* worker line 42: self.url_queue.task_done()
WorkerTaskDone(w) ==
    /\ wpc[w] = "task_done"
    /\ unfinished_tasks' = unfinished_tasks - 1
    /\ wpc' = [wpc EXCEPT ![w] = "loop"]
    /\ UNCHANGED <<max_workers, start_urls, links, robots_up, url_queue, crawled_urls, mgr,
                   spawned, joined, cur, todo, fetch_count, fetch_failed>>
    /\ UNCHANGED <<last_access_times, crawlGhosts, notCrawl>>

CrawlNext ==
    \/ StartThread
    \/ JoinThread
    \/ \E w \in DOMAIN wpc : WorkerLoop(w)
    \/ \E w \in DOMAIN wpc : WorkerGet(w)
    \/ \E w \in DOMAIN wpc : WorkerEnforce(w)
    \/ \E w \in DOMAIN wpc : WorkerCanCrawl(w)
    \/ \E w \in DOMAIN wpc, ok \in BOOLEAN : WorkerFetch(w, ok)
    \/ \E w \in DOMAIN wpc : WorkerMark(w)
    \/ \E w \in DOMAIN wpc : WorkerPush(w)
    \/ \E w \in DOMAIN wpc : WorkerTaskDone(w)

(***************************************************************************)
(* ManagerSpec: start_crawl of a manager constructed with any max_workers, *)
(* and a caller that asks the running crawl to stop.  crawler_manager.py   *)
(* has no stop flag, deadline or event: worker (lines 30-42) tests only    *)
(* url_queue.empty(), start_crawl (lines 64-74) only joins.                *)
(***************************************************************************)
ManagerInit == \E n \in 0..NumWorkers : CrawlInitWith(n)

CancelIdle == stop_signal = FALSE

\* start_crawl lines 64-74 with max_workers = 0: range(0) is empty, no thread
\* is started, none is joined, and "Crawling complete." is printed
StartCrawlNoWorkers ==
    /\ mgr = "starting"
    /\ max_workers = 0
    /\ mgr' = "complete"
    /\ UNCHANGED <<max_workers, start_urls, links, robots_up, url_queue,
                   unfinished_tasks, crawled_urls, spawned, joined, wpc, cur, todo,
                   fetch_count, fetch_failed>>
    /\ UNCHANGED <<last_access_times, crawlGhosts, notCrawl>>

\* the caller asks the running crawl to stop; no statement of worker or
\* start_crawl reads the request
RaiseStop ==
    /\ mgr # "complete"
    /\ ~stop_signal
    /\ stop_signal' = TRUE
    /\ UNCHANGED notCancel

ManagerNext == CrawlNext \/ StartCrawlNoWorkers \/ RaiseStop

(***************************************************************************)
(* ScopeSpec: one RobotsParser (robots_parser.py) and one PolitenessPolicy *)
(* (politeness_policy.py) used for URLs of several hosts.  A URL is its    *)
(* scheme, netloc and path; a host is scheme://netloc.                     *)
(***************************************************************************)
MaxFetches == 3

ScopeUrls == [scheme : {"http", "https"}, netloc : Hosts, path : {PathAdmin, PathPub}]
HostOf(u) == <<u.scheme, u.netloc>>

ScopeInit ==
    /\ robots_parser = RpNew
    /\ robots_fetched = <<>>
    /\ host_access = <<>>

ScopeIdle == ScopeInit

\* fetch_robots(base_url), lines 14-24: get <base_url>/robots.txt and parse it
\* into self.rules (parse_robots does not clear the rules it holds)
ScopeFetchRobots(u) ==
    /\ Len(robots_fetched) < MaxFetches
    /\ robots_parser' = parse_robots(robots_parser, RobotsFile(u.netloc), "*")
    /\ robots_fetched' = Append(robots_fetched, HostOf(u))
    /\ UNCHANGED <<host_access, now, last_access_times>>
    /\ UNCHANGED notScope

\* respect_delay(url), lines 55-66: sleep for what is left of the delay of
\* the netloc, then record the time of entry under the netloc
ScopeRespectDelay(u) ==
    LET sleep_time == SleepTime(last_access_times, u.netloc, now, Delay)
    IN /\ now + sleep_time <= MaxTime
       /\ last_access_times' = DictSet(last_access_times, u.netloc, now)
       /\ host_access' = DictSet(host_access, HostOf(u), now)
       /\ now' = now + sleep_time
       /\ UNCHANGED <<robots_parser, robots_fetched>>
       /\ UNCHANGED notScope

\* time passes
ScopeTick ==
    /\ now < MaxTime
    /\ now' = now + 1
    /\ UNCHANGED <<robots_parser, robots_fetched, host_access, last_access_times>>
    /\ UNCHANGED notScope

ScopeNext ==
    \/ \E u \in ScopeUrls : ScopeFetchRobots(u)
    \/ \E u \in ScopeUrls : ScopeRespectDelay(u)
    \/ ScopeTick

(***************************************************************************)
(* ApiSpec: api_key_auth.py.  NumHandlers threads of the server handle     *)
(* requests; each statement of rate_limit_check that reads or writes       *)
(* rate_limit_tracker is one step.  Time is counted in minutes.            *)
(***************************************************************************)
NumHandlers == 2
MaxArrivals == 2
MaxApiTime == 1
RATE_LIMIT_WINDOW == 1
MAX_REQUESTS_PER_WINDOW == 5

Handlers == 1..NumHandlers
\* API_KEYS.values(), a key that is not among them, and no key at all
ValidKeys == {"k1"}
ApiKeys == ValidKeys \cup {"bad", ""}
Endpoints == {"data", "reset_rate_limit"}

sha256(k) == <<"sha256", k>>
\* authenticate(api_key), lines 45-51
AuthenticateAny(k) == TRUE
authenticate(k) == \E valid_key \in ValidKeys : sha256(valid_key) = sha256(k)

\* line 36: the timestamps newer than current_time - RATE_LIMIT_WINDOW
Recent(times, ct) == SelectSeq(times, LAMBDA t : t > ct - RATE_LIMIT_WINDOW)

NoList == [alias |-> FALSE, val |-> <<>>]
\* the list a handler's request_times refers to: the list of the tracker
\* while it is the same object, its own otherwise
ListOf(h) ==
    IF request_times[h].alias THEN rate_limit_tracker[api_key[h]]
    ELSE request_times[h].val
\* rate_limit_tracker[k] is bound to a new list: a handler whose request_times
\* is the old list keeps the old list
Rebound(k, except) ==
    [h \in Handlers |->
        IF h # except /\ request_times[h].alias /\ api_key[h] = k
        THEN [alias |-> FALSE, val |-> rate_limit_tracker[k]]
        ELSE request_times[h]]

\* the list of a key after n requests at time 0, one after the other
Served(n) == [i \in 1..n |-> 0]

\* the server after no request, or after all but one or all of the
\* MAX_REQUESTS_PER_WINDOW requests of a valid key were answered 200 at time
\* 0, one after the other
ApiInit ==
    /\ \E n \in {0, MAX_REQUESTS_PER_WINDOW - 1, MAX_REQUESTS_PER_WINDOW}, k \in ValidKeys :
          /\ rate_limit_tracker = IF n = 0 THEN <<>> ELSE DictSet(<<>>, k, Served(n))
          /\ accepted = [v \in ValidKeys |->
                            IF n > 0 /\ v = k THEN DictSet(<<>>, 0, n) ELSE <<>>]
    /\ now = 0
    /\ arrivals = 0
    /\ hpc = [h \in Handlers |-> "idle"]
    /\ api_key = [h \in Handlers |-> ""]
    /\ endpoint = [h \in Handlers |-> "data"]
    /\ req_time = [h \in Handlers |-> 0]
    /\ request_times = [h \in Handlers |-> NoList]
    /\ response = [h \in Handlers |-> "none"]
    /\ touched = [h \in Handlers |-> FALSE]
    /\ accounted = [h \in Handlers |-> FALSE]

ApiIdle ==
    /\ rate_limit_tracker = <<>>
    /\ arrivals = 0
    /\ hpc = <<>>
    /\ api_key = <<>>
    /\ endpoint = <<>>
    /\ req_time = <<>>
    /\ request_times = <<>>
    /\ response = <<>>
    /\ touched = <<>>
    /\ accounted = <<>>
    /\ accepted = <<>>

\* rate_limit_check has returned True at current_time ct
Accept(k, ct) ==
    [accepted EXCEPT ![k] =
        IF ct \in DOMAIN @ THEN [@ EXCEPT ![ct] = @ + 1] ELSE DictSet(@, ct, 1)]

\* decorated_function lines 58-65: a request arrives; no key: 401; a key
\* that does not authenticate: 403; otherwise on to rate_limit_check
RequireApiKey(h, k, ep) ==
    /\ hpc[h] = "idle"
    /\ arrivals < MaxArrivals
    /\ arrivals' = arrivals + 1
    /\ api_key' = [api_key EXCEPT ![h] = k]
    /\ endpoint' = [endpoint EXCEPT ![h] = ep]
    /\ IF k = "" THEN /\ response' = [response EXCEPT ![h] = "401"]
                      /\ hpc' = [hpc EXCEPT ![h] = "done"]
       ELSE IF ~authenticate(k)
            THEN /\ response' = [response EXCEPT ![h] = "403"]
                 /\ hpc' = [hpc EXCEPT ![h] = "done"]
            ELSE /\ hpc' = [hpc EXCEPT ![h] = "check"]
                 /\ UNCHANGED response
    /\ UNCHANGED <<rate_limit_tracker, req_time, request_times, touched, accounted,
                   accepted, now>>
    /\ UNCHANGED notApi

\* rate_limit_check lines 29-30: read the clock, test for the key
RateLimitTest(h) ==
    /\ hpc[h] = "check"
    /\ req_time' = [req_time EXCEPT ![h] = now]
    /\ touched' = [touched EXCEPT ![h] = TRUE]
    /\ hpc' = [hpc EXCEPT ![h] = IF api_key[h] \in DOMAIN rate_limit_tracker
                                 THEN "filter" ELSE "first"]
    /\ UNCHANGED <<rate_limit_tracker, arrivals, api_key, endpoint, request_times,
                   response, accounted, accepted, now>>
    /\ UNCHANGED notApi

\* lines 31-32: rate_limit_tracker[api_key] = [current_time]; return True
RateLimitFirst(h) ==
    /\ hpc[h] = "first"
    /\ rate_limit_tracker' = DictSet(rate_limit_tracker, api_key[h], <<req_time[h]>>)
    /\ request_times' = IF api_key[h] \in DOMAIN rate_limit_tracker
                        THEN Rebound(api_key[h], h) ELSE request_times
    /\ accounted' = [accounted EXCEPT ![h] = TRUE]
    /\ accepted' = Accept(api_key[h], req_time[h])
    /\ hpc' = [hpc EXCEPT ![h] = "view"]
    /\ UNCHANGED <<arrivals, api_key, endpoint, req_time, response, touched, now>>
    /\ UNCHANGED notApi

\* lines 34-36: request_times = the recent timestamps, a new list
RateLimitFilter(h) ==
    /\ hpc[h] = "filter"
    /\ request_times' = [request_times EXCEPT ![h] =
           [alias |-> FALSE, val |-> Recent(rate_limit_tracker[api_key[h]], req_time[h])]]
    /\ hpc' = [hpc EXCEPT ![h] = "store"]
    /\ UNCHANGED <<rate_limit_tracker, arrivals, api_key, endpoint, req_time,
                   response, touched, accounted, accepted, now>>
    /\ UNCHANGED notApi

\* line 37: rate_limit_tracker[api_key] = request_times
RateLimitStore(h) ==
    /\ hpc[h] = "store"
    /\ rate_limit_tracker' = [rate_limit_tracker EXCEPT ![api_key[h]] = request_times[h].val]
    /\ request_times' = [Rebound(api_key[h], h) EXCEPT ![h] = [alias |-> TRUE, val |-> <<>>]]
    /\ hpc' = [hpc EXCEPT ![h] = "len"]
    /\ UNCHANGED <<arrivals, api_key, endpoint, req_time, response, touched,
                   accounted, accepted, now>>
    /\ UNCHANGED notApi

\* lines 39-40 and 67-69: the list is full: return False, answered 429
RateLimitLen(h) ==
    /\ hpc[h] = "len"
    /\ IF Len(ListOf(h)) >= MAX_REQUESTS_PER_WINDOW
       THEN /\ response' = [response EXCEPT ![h] = "429"]
            /\ hpc' = [hpc EXCEPT ![h] = "done"]
       ELSE /\ hpc' = [hpc EXCEPT ![h] = "append"]
            /\ UNCHANGED response
    /\ request_times' = [request_times EXCEPT ![h] = NoList]
    /\ UNCHANGED <<rate_limit_tracker, arrivals, api_key, endpoint, req_time,
                   touched, accounted, accepted, now>>
    /\ UNCHANGED notApi

\* lines 41-42: rate_limit_tracker[api_key].append(current_time); return True
RateLimitAppend(h) ==
    /\ hpc[h] = "append"
    /\ rate_limit_tracker' = [rate_limit_tracker EXCEPT ![api_key[h]] = Append(@, req_time[h])]
    /\ accounted' = [accounted EXCEPT ![h] = TRUE]
    /\ accepted' = Accept(api_key[h], req_time[h])
    /\ hpc' = [hpc EXCEPT ![h] = "view"]
    /\ UNCHANGED <<arrivals, api_key, endpoint, req_time, request_times, response,
                   touched, now>>
    /\ UNCHANGED notApi

\* the view function: get_data (lines 79-86) answers 200; reset_rate_limit
\* (lines 111-121) binds the key to a new empty list and answers 200
ViewFunction(h) ==
    /\ hpc[h] = "view"
    /\ IF endpoint[h] = "reset_rate_limit" /\ api_key[h] \in DOMAIN rate_limit_tracker
       THEN /\ rate_limit_tracker' = [rate_limit_tracker EXCEPT ![api_key[h]] = <<>>]
            /\ request_times' = Rebound(api_key[h], h)
            /\ accepted' = [accepted EXCEPT ![api_key[h]] = <<>>]
       ELSE UNCHANGED <<rate_limit_tracker, request_times, accepted>>
    /\ response' = [response EXCEPT ![h] = "200"]
    /\ hpc' = [hpc EXCEPT ![h] = "done"]
    /\ UNCHANGED <<arrivals, api_key, endpoint, req_time, touched, accounted, now>>
    /\ UNCHANGED notApi

\* the response is sent and the thread is free for the next request
Respond(h) ==
    /\ hpc[h] = "done"
    /\ hpc' = [hpc EXCEPT ![h] = "idle"]
    /\ api_key' = [api_key EXCEPT ![h] = ""]
    /\ endpoint' = [endpoint EXCEPT ![h] = "data"]
    /\ req_time' = [req_time EXCEPT ![h] = 0]
    /\ response' = [response EXCEPT ![h] = "none"]
    /\ touched' = [touched EXCEPT ![h] = FALSE]
    /\ accounted' = [accounted EXCEPT ![h] = FALSE]
    /\ UNCHANGED <<rate_limit_tracker, arrivals, request_times, accepted, now>>
    /\ UNCHANGED notApi

\* time passes
ApiTick ==
    /\ now < MaxApiTime
    /\ now' = now + 1
    /\ UNCHANGED apiVars
    /\ UNCHANGED notApi

ApiNext ==
    \/ \E h \in Handlers, k \in ApiKeys, ep \in Endpoints : RequireApiKey(h, k, ep)
    \/ \E h \in Handlers : RateLimitTest(h)
    \/ \E h \in Handlers : RateLimitFirst(h)
    \/ \E h \in Handlers : RateLimitFilter(h)
    \/ \E h \in Handlers : RateLimitStore(h)
    \/ \E h \in Handlers : RateLimitLen(h)
    \/ \E h \in Handlers : RateLimitAppend(h)
    \/ \E h \in Handlers : ViewFunction(h)
    \/ \E h \in Handlers : Respond(h)
    \/ ApiTick

(***************************************************************************)
(* LinksSpec: link extraction.                                             *)
(*   ContentExtractor.extract_links      content_extractor.py lines 94-105 *)
(*   Crawler.extract_links               robots_parser.py lines 106-114    *)
(* A URL or href is the record urlparse makes of it; a path is a sequence  *)
(* of segments, absolute when it starts with "/".                          *)
(***************************************************************************)
MaxHrefs == 3

Url(s, n, p, f) == [scheme |-> s, netloc |-> n, path |-> p, fragment |-> f]
EmptyUrl == Url("", "", <<>>, "")

\* the page http://h/d/a, and a page whose URL is not known ('')
PageUrl == Url("http", "h", <<"/", "d", "a">>, "")
BaseUrls == {PageUrl, EmptyUrl}

Hrefs ==
    { Url("", "", <<"/", "b">>, ""),            \* /b
      Url("", "", <<"b">>, ""),                 \* b
      Url("", "", <<"/", "b">>, "f"),           \* /b#f
      Url("", "", <<>>, "top"),                 \* #top
      Url("http", "g", <<"/", "x">>, ""),       \* http://g/x
      Url("mailto", "", <<"u@h">>, "") }        \* mailto:u@h

\* urllib.parse.urljoin(base, url)
urljoin(base, url) ==
    IF base = EmptyUrl THEN url
    ELSE IF url = EmptyUrl THEN base
    ELSE IF url.scheme # "" /\ url.scheme # base.scheme THEN url
    ELSE IF url.netloc # "" THEN [url EXCEPT !.scheme = base.scheme]
    ELSE IF url.path = <<>> THEN [base EXCEPT !.fragment = url.fragment]
    ELSE IF Head(url.path) = "/"
         THEN [base EXCEPT !.path = url.path, !.fragment = url.fragment]
    ELSE [base EXCEPT !.path = SubSeq(base.path, 1, Len(base.path) - 1) \o url.path,
                      !.fragment = url.fragment]

\* is_valid_url(url): all([parsed.scheme, parsed.netloc])
is_valid_url(url) == url.scheme # "" /\ url.netloc # ""

\* ContentExtractor.extract_links(soup, base_url), on the hrefs of the anchors
RECURSIVE extract_links(_, _)
extract_links(hs, base) ==
    IF hs = <<>> THEN <<>>
    ELSE LET full_url == urljoin(base, Head(hs))
         IN IF is_valid_url(full_url)
            THEN <<full_url>> \o extract_links(Tail(hs), base)
            ELSE extract_links(Tail(hs), base)

\* self.base_url of the Crawler: the site it was constructed for
CrawlerBaseUrl == Url("http", "h", <<"/">>, "")

\* Crawler.extract_links(html_content, base_url): the set it builds
CrawlerLinkSet(hs, base) ==
    {urljoin(base, hs[k]) : k \in {i \in 1..Len(hs) :
                                      urljoin(base, hs[i]).netloc = CrawlerBaseUrl.netloc}}

\* the orders in which a set can be iterated
Listings(S) ==
    {l \in [1..Cardinality(S) -> S] : \A i, j \in 1..Cardinality(S) : l[i] = l[j] => i = j}

LinksInit ==
    /\ base_url \in BaseUrls
    /\ hrefs \in UNION {[1..n -> Hrefs] : n \in 0..MaxHrefs}
    /\ ce_links = [done |-> FALSE, val |-> <<>>]
    /\ crawler_links = [done |-> FALSE, val |-> <<>>]

LinksIdle ==
    /\ base_url = EmptyUrl
    /\ hrefs = <<>>
    /\ ce_links = [done |-> TRUE, val |-> <<>>]
    /\ crawler_links = [done |-> TRUE, val |-> <<>>]

ContentExtractorExtractLinks ==
    /\ ~ce_links.done
    /\ ce_links' = [done |-> TRUE, val |-> extract_links(hrefs, base_url)]
    /\ UNCHANGED <<base_url, hrefs, crawler_links>>
    /\ UNCHANGED notLinks

CrawlerExtractLinks ==
    /\ ~crawler_links.done
    /\ \E l \in Listings(CrawlerLinkSet(hrefs, base_url)) :
          crawler_links' = [done |-> TRUE, val |-> l]
    /\ UNCHANGED <<base_url, hrefs, ce_links>>
    /\ UNCHANGED notLinks

LinksNext == ContentExtractorExtractLinks \/ CrawlerExtractLinks

(***************************************************************************)
(* DepthSpec: PageFetcher.crawl(start_url, max_depth), page_fetcher.py      *)
(* lines 150-173: one thread, a list of (url, depth) pairs consumed from   *)
(* the front.  Each iteration of the while loop is one step.               *)
(***************************************************************************)
MaxDepthCfg == 3        \* max_depth is drawn from 0..MaxDepthCfg (3 is the default)
StartUrl == "a"

\* /a links to /b, /b links to /private/c
SiteChain == [NoLinks EXCEPT !["a"] = <<"b">>, !["b"] = <<"c">>]
\* every page links to the others
SiteCycle == [NoLinks EXCEPT !["a"] = <<"b", "c">>, !["b"] = <<"a", "c">>,
                             !["c"] = <<"a">>]
\* /a links to /b and to /b#f; /b links to /private/c
SiteFragment == [NoLinks EXCEPT !["a"] = <<"b", "b#f">>, !["b"] = <<"c">>,
                                !["b#f"] = <<"c">>]
Sites == {SiteChain, SiteCycle, GraphScenarioA, GraphDupCycle, SiteFragment}

\* urlparse of the URLs of the site
UrlRecord(u) ==
    CASE u = "a" -> Url("http", "h", <<"/", "a">>, "")
      [] u = "b" -> Url("http", "h", <<"/", "b">>, "")
      [] u = "b#f" -> Url("http", "h", <<"/", "b">>, "f")
      [] u = "c" -> Url("http", "h", <<"/", "private", "c">>, "")
UrlNamed(r) == CHOOSE u \in Urls \ {"x"} : UrlRecord(u) = r

\* normalize_url(base_url, link): urljoin(base_url, link)
normalize_url(base, link) == UrlNamed(urljoin(UrlRecord(base), UrlRecord(link)))

\* what self.fetch(current_url) returns: None, an empty body, or a page
Contents == {"None", "", "html"}

DepthInit ==
    /\ max_depth \in 0..MaxDepthCfg
    /\ site \in Sites
    /\ urls_to_visit = <<[url |-> StartUrl, depth |-> 0]>>
    /\ visited_urls = {}
    /\ fetched_at = {}

DepthIdle ==
    /\ max_depth = 0
    /\ site = <<>>
    /\ urls_to_visit = <<>>
    /\ visited_urls = {}
    /\ fetched_at = {}

\* the depth test of line 159
DepthExceedsLoose(d, m) == d > m + 1
DepthExceeds(d, m) == d > m

\* lines 169-173: the normalized links not in visited_urls, in document
\* order, at depth d
RECURSIVE NewEntries(_, _, _, _)
NewEntries(ls, current_url, visited, d) ==
    IF ls = <<>> THEN <<>>
    ELSE LET absolute_link == normalize_url(current_url, Head(ls))
         IN IF absolute_link \in visited
            THEN NewEntries(Tail(ls), current_url, visited, d)
            ELSE <<[url |-> absolute_link, depth |-> d]>>
                     \o NewEntries(Tail(ls), current_url, visited, d)

\* extract_links(page_content): an empty body has no links
ExtractLinks(content, u) == IF content = "html" THEN site[u] ELSE <<>>

\* lines 157-160: pop the front pair; too deep or already visited: continue
PageFetcherCrawlSkip ==
    /\ urls_to_visit # <<>>
    /\ LET e == Head(urls_to_visit)
       IN /\ DepthExceeds(e.depth, max_depth) \/ e.url \in visited_urls
          /\ urls_to_visit' = Tail(urls_to_visit)
    /\ UNCHANGED <<max_depth, site, visited_urls, fetched_at>>
    /\ UNCHANGED notDepth

\* lines 157-173: pop the front pair, fetch the page; None: continue; otherwise
\* mark it visited and append its unvisited links at depth + 1
PageFetcherCrawlVisit(content) ==
    /\ urls_to_visit # <<>>
    /\ LET e == Head(urls_to_visit)
       IN /\ ~(DepthExceeds(e.depth, max_depth) \/ e.url \in visited_urls)
          /\ fetched_at' = fetched_at \cup {e}
          /\ IF content = "None"
             THEN /\ urls_to_visit' = Tail(urls_to_visit)
                  /\ UNCHANGED visited_urls
             ELSE /\ visited_urls' = visited_urls \cup {e.url}
                  /\ urls_to_visit' = Tail(urls_to_visit) \o
                        NewEntries(ExtractLinks(content, e.url), e.url,
                                   visited_urls \cup {e.url}, e.depth + 1)
    /\ UNCHANGED <<max_depth, site>>
    /\ UNCHANGED notDepth

DepthNext ==
    \/ PageFetcherCrawlSkip
    \/ \E content \in Contents : PageFetcherCrawlVisit(content)

(***************************************************************************)
(* CrawlerSpec: the single-host Crawler, robots_parser.py lines 75-128.    *)
(* start_crawling may be called again on the same Crawler.                 *)
(***************************************************************************)
MaxPagesCfg == 3
MaxRuns == 2

CrawlerUrls == {"a", "b", "c"}
\* Crawler.base_url
CrawlerBase == "a"
Webs == {NoLinks, GraphScenarioA, GraphDupCycle, SiteChain, SiteCycle}

CrawlerInit ==
    /\ web \in Webs
    /\ robots_rules \in {ResolveRobots(TRUE), ResolveRobots(FALSE)}
    /\ to_crawl = {}
    /\ crawler_visited = {}
    /\ pages_crawled = 0
    /\ max_pages = 0
    /\ cpc = "idle"
    /\ runs = 0
    /\ recrawled = FALSE
    /\ after_ok = FALSE

CrawlerIdle ==
    /\ web = <<>>
    /\ robots_rules = RpNew
    /\ to_crawl = {}
    /\ crawler_visited = {}
    /\ pages_crawled = 0
    /\ max_pages = 0
    /\ cpc = "idle"
    /\ runs = 0
    /\ recrawled = FALSE
    /\ after_ok = FALSE

\* Crawler.extract_links on the page of u: the set of its same-host links
SameHostLinks(u) ==
    {web[u][k] : k \in {i \in 1..Len(web[u]) : UrlHost(web[u][i]) = UrlHost(CrawlerBase)}}

\* the test of line 125
ShouldCrawlAlways(u, vis) == TRUE
ShouldCrawl(u, vis) == u \notin vis

\* crawl lines 99-100: to_crawl.update(links); to_crawl.difference_update(visited_urls)
UpdateKeepVisited(to, found, vis) == to \cup found
UpdateToCrawl(to, found, vis) == (to \cup found) \ vis

\* start_crawling lines 116-121: add the initial URL, pages_crawled = 0
StartCrawling(initial_url, mp) ==
    /\ cpc = "idle"
    /\ runs < MaxRuns
    /\ runs' = runs + 1
    /\ to_crawl' = to_crawl \cup {initial_url}
    /\ pages_crawled' = 0
    /\ max_pages' = mp
    /\ cpc' = "loop"
    /\ after_ok' = FALSE
    /\ UNCHANGED <<web, robots_rules, crawler_visited, recrawled>>
    /\ UNCHANGED notCrawler

\* line 123: the loop test fails; "Finished crawling"
CrawlerLoopExit ==
    /\ cpc = "loop"
    /\ ~(to_crawl # {} /\ pages_crawled < max_pages)
    /\ cpc' = "idle"
    /\ UNCHANGED <<web, robots_rules, to_crawl, crawler_visited, pages_crawled, max_pages,
                   runs, recrawled, after_ok>>
    /\ UNCHANGED notCrawler

\* lines 123-127 and crawl (lines 83-104): pop any URL; unless it is in
\* visited_urls call crawl on it and count the page.  crawl returns at once on
\* a disallowed URL; a 200 adds the URL to visited_urls and its links to
\* to_crawl; any other status and a RequestException change nothing
CrawlerIterate(url, ok) ==
    /\ cpc = "loop"
    /\ to_crawl # {} /\ pages_crawled < max_pages
    /\ url \in to_crawl
    /\ IF ShouldCrawl(url, crawler_visited)
       THEN /\ pages_crawled' = pages_crawled + 1
            /\ recrawled' = (recrawled \/ url \in crawler_visited)
            /\ IF is_allowed(robots_rules, UrlPath(url)) /\ ok
               THEN /\ crawler_visited' = crawler_visited \cup {url}
                    /\ to_crawl' = UpdateToCrawl(to_crawl \ {url}, SameHostLinks(url),
                                                 crawler_visited \cup {url})
                    /\ after_ok' = TRUE
               ELSE /\ to_crawl' = to_crawl \ {url}
                    /\ after_ok' = FALSE
                    /\ UNCHANGED crawler_visited
       ELSE /\ to_crawl' = to_crawl \ {url}
            /\ UNCHANGED <<crawler_visited, pages_crawled, recrawled, after_ok>>
    /\ UNCHANGED <<web, robots_rules, max_pages, cpc, runs>>
    /\ UNCHANGED notCrawler

CrawlerNext ==
    \/ \E u \in CrawlerUrls, mp \in 0..MaxPagesCfg : StartCrawling(u, mp)
    \/ CrawlerLoopExit
    \/ \E u \in CrawlerUrls, ok \in BOOLEAN : CrawlerIterate(u, ok)

FetchNext ==
    \/ FetchStart
    \/ FetchRetrySleep
    \/ \E o \in Outcomes : FetchGet(o)
    \/ FetchSleep

ParseNext == RpParse \/ PpParse

ParseSpecInit ==
    ParseInit /\ FetchIdle /\ PoliteIdle /\ RobotsIdle /\ CrawlIdle /\ DepthIdle
        /\ LinksIdle /\ CancelIdle /\ ScopeIdle /\ ApiIdle /\ CrawlerIdle
FetchSpecInit ==
    FetchInit /\ ParseIdle /\ PoliteIdle /\ RobotsIdle /\ CrawlIdle /\ DepthIdle
        /\ LinksIdle /\ CancelIdle /\ ScopeIdle /\ ApiIdle /\ CrawlerIdle
PoliteSpecInit ==
    PoliteInit /\ ParseIdle /\ FetchIdle /\ RobotsIdle /\ CrawlIdle /\ DepthIdle
        /\ LinksIdle /\ CancelIdle /\ ScopeIdle /\ ApiIdle /\ CrawlerIdle
RobotsSpecInit ==
    RobotsInit /\ ParseIdle /\ FetchIdle /\ PoliteIdle /\ CrawlIdle /\ DepthIdle
        /\ LinksIdle /\ CancelIdle /\ ScopeIdle /\ ApiIdle /\ CrawlerIdle
CrawlSpecInit ==
    CrawlInit /\ ParseIdle /\ FetchIdle /\ PoliteIdle /\ RobotsIdle /\ DepthIdle
        /\ LinksIdle /\ CancelIdle /\ ScopeIdle /\ ApiIdle /\ CrawlerIdle
DepthSpecInit ==
    DepthInit /\ ParseIdle /\ FetchIdle /\ PoliteIdle /\ RobotsIdle /\ CrawlIdle
        /\ LinksIdle /\ CancelIdle /\ ScopeIdle /\ ApiIdle /\ CrawlerIdle
LinksSpecInit ==
    LinksInit /\ ParseIdle /\ FetchIdle /\ PoliteIdle /\ RobotsIdle /\ CrawlIdle
        /\ DepthIdle /\ CancelIdle /\ ScopeIdle /\ ApiIdle /\ CrawlerIdle
ScopeSpecInit ==
    ScopeInit /\ ParseIdle /\ FetchIdle /\ PoliteIdle /\ RobotsIdle /\ CrawlIdle
        /\ DepthIdle /\ LinksIdle /\ CancelIdle /\ ApiIdle /\ CrawlerIdle
ApiSpecInit ==
    ApiInit /\ ParseIdle /\ FetchIdle /\ PoliteIdle /\ RobotsIdle /\ CrawlIdle
        /\ DepthIdle /\ LinksIdle /\ CancelIdle /\ ScopeIdle /\ CrawlerIdle
CrawlerSpecInit ==
    CrawlerInit /\ ParseIdle /\ FetchIdle /\ PoliteIdle /\ RobotsIdle /\ CrawlIdle
        /\ DepthIdle /\ LinksIdle /\ CancelIdle /\ ScopeIdle /\ ApiIdle
ManagerSpecInit ==
    ManagerInit /\ ParseIdle /\ FetchIdle /\ PoliteIdle /\ RobotsIdle /\ DepthIdle
        /\ LinksIdle /\ CancelIdle /\ ScopeIdle /\ ApiIdle /\ CrawlerIdle

ParseSpec == ParseSpecInit /\ [][ParseNext]_vars
FetchSpec == FetchSpecInit /\ [][FetchNext]_vars
PoliteSpec == PoliteSpecInit /\ [][PoliteNext]_vars
RobotsSpec == RobotsSpecInit /\ [][RobotsNext]_vars
CrawlSpec == CrawlSpecInit /\ [][CrawlNext]_vars
DepthSpec == DepthSpecInit /\ [][DepthNext]_vars
LinksSpec == LinksSpecInit /\ [][LinksNext]_vars
ManagerSpec == ManagerSpecInit /\ [][ManagerNext]_vars
ScopeSpec == ScopeSpecInit /\ [][ScopeNext]_vars
ApiSpec == ApiSpecInit /\ [][ApiNext]_vars
CrawlerSpec == CrawlerSpecInit /\ [][CrawlerNext]_vars /\ WF_vars(CrawlerNext)

(***************************************************************************)
(*                              CLAIMS                                     *)
(***************************************************************************)

\* The group rule of the specification: a group applies when its agent token
\* is the crawler's agent name or "*".
GroupNamed(text, i) ==
    LET uas == {j \in 1..(i - 1) : text[j].key = "user-agent"}
    IN IF uas = {} THEN <<>>
       ELSE text[CHOOSE j \in uas : \A k \in uas : k <= j].val

\* a robots.txt whose only rule is "Disallow: /admin", in an applicable group
OnlyDisallowAdmin(text, ua) ==
    \E i \in 1..Len(text) :
        /\ text[i] = Line("disallow", PathAdmin)
        /\ GroupNamed(text, i) \in {<<ua>>, <<"*">>}
        /\ \A j \in 1..Len(text) : j # i => text[j].key \in {"user-agent", "#"}

\* C8: with "Disallow: /admin" in an applicable group and no other rule, a path
\* is allowed exactly when it does not start with /admin, by is_allowed of
\* robots_parser.py and by can_fetch of politeness_policy.py.
C8_DisallowIsPrefixRule ==
    OnlyDisallowAdmin(robots_text, agent) =>
        /\ rp.parsed => \A p \in Paths : is_allowed(rp, p) = ~IsPrefix(PathAdmin, p)
        /\ pp.parsed => \A p \in Paths : can_fetch(pp, p) = ~IsPrefix(PathAdmin, p)

BackoffBase == 2    \* the first sleep of fetch: 2 ** 1
RetryBase == 1      \* the first sleep of fetch_with_retry: 2 ** 0

\* C9: the k-th sleep of a fetch (after the failed attempt k-1, counted from 0)
\* lasts base * 2^(k-1), and every sleep follows a failed attempt; the base is
\* BackoffBase in fetch and RetryBase in fetch_with_retry.
C9_BackoffSchedule ==
    /\ Len(sleeps) <= Len(gets)
    /\ \A k \in 1..Len(sleeps) :
          /\ AttemptFails(gets[k])
          /\ sleeps[k] = BackoffBase * Pow2(k - 1)
    /\ \A k \in 1..Len(rsleeps) : rsleeps[k] = RetryBase * Pow2(k - 1)

\* C9 witness: three attempts failed and three sleeps were taken
C9_Witness ==
    /\ fpc = "returned"
    /\ Len(sleeps) = 3
    /\ \A k \in 1..Len(gets) : AttemptFails(gets[k])

\* C10: a fetch issues at most max_retries GETs, none after a successful one;
\* it returns the body of the first successful attempt, and returns None
\* after exactly max_retries failed attempts.
C10_BoundedRetries ==
    /\ Len(gets) <= max_retries
    /\ \A k \in 1..(Len(gets) - 1) : AttemptFails(gets[k])
    /\ (Len(gets) > 0 /\ ~AttemptFails(gets[Len(gets)])) =>
          fpc = "returned" /\ result = ResponseText(gets[Len(gets)])
    /\ (fpc = "returned" /\ robots_ok /\ url_ok
            /\ (gets = <<>> \/ AttemptFails(gets[Len(gets)]))) =>
          result = "None" /\ Len(gets) = max_retries
    /\ fpc # "returned" => result = "pending"

\* C10 witness: max_retries = 3 attempts all failed and fetch returned None
C10_Witness ==
    /\ fpc = "returned" /\ result = "None"
    /\ max_retries = 3 /\ Len(gets) = 3

\* C2: consecutive fetch starts to one host are at least Delay apart, for any
\* number of callers and any interleaving.
C2_Politeness ==
    \A h \in DOMAIN fetch_starts :
        \A k \in 1..(Len(fetch_starts[h]) - 1) :
            fetch_starts[h][k + 1] - fetch_starts[h][k] >= Delay

\* C5: an answer that rests on a failed robots.txt request (a network error
\* or a status other than 200) is "allowed", whatever the path.
C5_FailOpen ==
    \A q \in DOMAIN qpc :
        (qpc[q] = "idle" /\ used[q] # 200) => answer[q] = TRUE

\* C6: for queries made one after the other, robots.txt of a host is
\* requested at most once, also when the first request failed.
C6_RequestedAtMostOnce ==
    \A h \in DOMAIN robots_requests :
        robots_requests[h] > 1 => overlapped[h]

\* C7: when first queries for one host overlap (a caller misses the cache
\* while another is still resolving that host), one request is issued for
\* its robots.txt and no second one.
C7_FirstRequestsSerialized ==
    \A h \in DOMAIN robots_requests :
        overlapped[h] => robots_requests[h] <= 1

\* C1: no URL is handed to the fetcher more than once during a crawl run.
C1_AtMostOnceFetch ==
    \A u \in DOMAIN fetch_count : fetch_count[u] <= 1

\* C3: the run cannot get stuck: until start_crawl has returned, some thread
\* can take a step (no worker is blocked for ever, nor the join).
C3_NoDeadlock ==
    mgr # "complete" => ENABLED CrawlNext

\* what the resolved robots rules of the host disallow
RulesDisallow(u) == robots_up /\ IsPrefix(PathPrivate, UrlPath(u))

\* the allowed URLs that can be reached from the seeds through allowed pages
RECURSIVE ReachableAllowed(_)
ReachableAllowed(S) ==
    LET N == S \cup {v \in Urls : ~RulesDisallow(v) /\
                        \E u \in S : \E k \in 1..Len(links[u]) : links[u][k] = v}
    IN IF N = S THEN S ELSE ReachableAllowed(N)
AllowedSeeds ==
    {u \in Urls : ~RulesDisallow(u) /\ \E k \in 1..Len(start_urls) : start_urls[k] = u}

RobotsCrawlDelay(h) ==
    LET d == parse_robots_txt(PpNew, RobotsFile(h), RobotsAgent).crawl_delay
    IN IF d = NoDelay THEN 0 ELSE d \div 10
\* delay(H) = max(configured default delay, robots crawl-delay or 0)
RequiredDelay(h) ==
    IF RobotsCrawlDelay(h) > Delay THEN RobotsCrawlDelay(h) ELSE Delay

\* C11: two consecutive fetch starts to a host that are at least the default
\* delay apart are at least delay(H) = max(default, robots crawl-delay) apart;
\* for a host whose robots.txt gives a larger crawl-delay that is the crawl-delay.
C11_CrawlDelayEnforced ==
    \A h \in DOMAIN fetch_starts :
        \A k \in 1..(Len(fetch_starts[h]) - 1) :
            fetch_starts[h][k + 1] - fetch_starts[h][k] >= Delay =>
                fetch_starts[h][k + 1] - fetch_starts[h][k] >= RequiredDelay(h)

\* C18: once a politeness wait for a host has returned, the recorded
\* last_access_time of the host is the time at which the latest call returned.
C18_LastAccessIsReturnTime ==
    \A h \in DOMAIN last_access_times :
        (h \in DOMAIN fetch_starts /\ fetch_starts[h] # <<>>) =>
            last_access_times[h] = fetch_starts[h][Len(fetch_starts[h])]

\* C12: a crawl started with an empty seed list fetches nothing: no worker
\* ever claims a URL, waits, asks for a robots.txt or calls the fetcher, the
\* crawled set stays empty, and the run goes on without blocking until
\* start_crawl has returned.
C12_EmptySeeds ==
    (start_urls = <<>>) =>
        /\ \A w \in DOMAIN wpc : wpc[w] \in {"unstarted", "loop", "done"}
        /\ \A u \in DOMAIN fetch_count : fetch_count[u] = 0
        /\ waited = {} /\ robots_checked = {} /\ fetched_ok = {}
        /\ last_access_times = <<>>
        /\ crawled_urls = {}
        /\ mgr # "complete" => ENABLED CrawlNext

\* C12 witness: a crawl of no seeds has completed, all workers joined
C12_Witness ==
    /\ start_urls = <<>> /\ mgr = "complete" /\ joined = NumWorkers
    /\ crawled_urls = {}

\* C13: when the run has completed, no queued URL is left unclaimed in the
\* frontier, and every URL whose fetch returned content is in the crawled set.
C13_AllQueuedProcessed ==
    mgr = "complete" =>
        /\ url_queue = <<>>
        /\ fetched_ok \subseteq crawled_urls

\* C14: an entry leaves the frontier only from its head and goes to exactly
\* one worker, the one that was calling get(); an entry is added only at the
\* tail; no other step changes the frontier.
C14_FifoExclusivePops ==
    [][ /\ Len(url_queue') < Len(url_queue) =>
              /\ url_queue' = Tail(url_queue)
              /\ \E w \in DOMAIN wpc :
                    /\ wpc[w] = "get" /\ wpc'[w] # "get"
                    /\ cur'[w] = Head(url_queue)
                    /\ \A v \in DOMAIN wpc \ {w} : wpc'[v] = wpc[v] /\ cur'[v] = cur[v]
        /\ Len(url_queue') > Len(url_queue) =>
              \E u \in Urls : url_queue' = Append(url_queue, u)
        /\ Len(url_queue') = Len(url_queue) => url_queue' = url_queue
      ]_vars

\* the positions at which a worker holds a claimed URL
InFlight == {"enforce", "can_crawl", "fetch", "mark", "push", "task_done"}

\* C14 witness: the seeds /private/c and /a were claimed by the two
\* workers 1 and 2, one each, and the frontier is empty
C14_Witness ==
    /\ start_urls = <<"c", "a">> /\ url_queue = <<>>
    /\ wpc[1] \in InFlight /\ wpc[2] \in InFlight
    /\ {cur[1], cur[2]} = {"c", "a"}

\* C15: the frontier holds each URL at most once, and holds no URL that a
\* worker has claimed and is processing or that is already crawled.
C15_SeenAtPush ==
    /\ \A i, j \in 1..Len(url_queue) : i # j => url_queue[i] # url_queue[j]
    /\ \A i \in 1..Len(url_queue) :
          /\ url_queue[i] \notin crawled_urls
          /\ \A w \in DOMAIN wpc : wpc[w] \in InFlight => cur[w] # url_queue[i]

\* C17: a URL the robots rules disallow is discarded before the politeness
\* step: no politeness wait is performed for it (which would also record an
\* access to its host).
C17_RobotsBeforePoliteness ==
    \A u \in waited : ~RulesDisallow(u)

\* C19: no worker is ended by a failure while processing a URL.
C19_WorkerSurvivesFailure ==
    \A w \in DOMAIN wpc : wpc[w] # "dead"

\* C20: a worker has returned from its loop only when no worker holds a
\* claimed URL (none is waiting, checking, fetching or extracting).
C20_IdleWorkerWaits ==
    \A w \in DOMAIN wpc :
        wpc[w] = "done" => \A v \in DOMAIN wpc : wpc[v] \notin InFlight

\* the discovery distance: some chain of d links leads from the start URL to u
RECURSIVE LinkedAtDepth(_, _)
LinkedAtDepth(u, d) ==
    IF d = 0 THEN u = StartUrl
    ELSE \E v \in DOMAIN site :
            /\ \E k \in 1..Len(site[v]) : site[v][k] = u
            /\ LinkedAtDepth(v, d - 1)

\* C16: the start URL has depth 0 and a link found on a page of depth d is
\* queued with depth d + 1, so the depth of every queued or fetched pair is
\* the length of a chain of links from the start URL; and no pair whose
\* depth exceeds max_depth is ever fetched.
C16_DepthBound ==
    /\ \A e \in fetched_at : e.depth <= max_depth /\ LinkedAtDepth(e.url, e.depth)
    /\ \A i \in 1..Len(urls_to_visit) :
          LinkedAtDepth(urls_to_visit[i].url, urls_to_visit[i].depth)

\* C16 witness: on the chain /a -> /b -> /private/c with max_depth = 1 the
\* crawl has ended: /b was fetched at depth 1, /private/c (depth 2) never
C16_Witness ==
    /\ site = SiteChain /\ max_depth = 1 /\ urls_to_visit = <<>>
    /\ [url |-> "b", depth |-> 1] \in fetched_at
    /\ \A e \in fetched_at : e.url # "c"
    /\ visited_urls = {"a", "b"}

\* C21: when start_crawl has returned, the frontier is empty, no worker holds
\* a claimed entry, and the count of entries put but not yet marked done
\* (Queue.unfinished_tasks) is zero.
C21_CompleteOnlyWhenTerminal ==
    mgr = "complete" =>
        /\ url_queue = <<>>
        /\ unfinished_tasks = 0
        /\ \A w \in DOMAIN wpc : wpc[w] \notin InFlight

\* the group rule of the specification: line i lies in an applicable group
Applicable(text, i, ua) == GroupNamed(text, i) \in {<<ua>>, <<"*">>}

\* the values of the key lines of the applicable groups, in file order
RECURSIVE SpecRulesFrom(_, _, _, _)
SpecRulesFrom(text, ua, key, i) ==
    IF i > Len(text) THEN <<>>
    ELSE IF text[i].key = key /\ text[i].val # <<>> /\ Applicable(text, i, ua)
         THEN <<text[i].val>> \o SpecRulesFrom(text, ua, key, i + 1)
         ELSE SpecRulesFrom(text, ua, key, i + 1)
SpecRules(text, ua, key) == SpecRulesFrom(text, ua, key, 1)

\* some Crawl-delay line lies in an applicable group
HasApplicableDelay(text, ua) ==
    \E i \in 1..Len(text) : text[i].key = "crawl-delay" /\ Applicable(text, i, ua)

\* C22: after a parse that did not raise, the Disallow and Allow rules held
\* are exactly those of the groups naming the crawler's agent or "*", and a
\* crawl-delay is held exactly when such a group has a Crawl-delay line; for
\* the parser of robots_parser.py and for the one of politeness_policy.py
\* (which keeps no Allow rules).
C22_GroupApplicability ==
    /\ (rp.parsed /\ ~rp.raised) =>
          /\ rp.disallow = SpecRules(robots_text, agent, "disallow")
          /\ rp.allow = SpecRules(robots_text, agent, "allow")
          /\ (rp.crawl_delay # NoDelay) = HasApplicableDelay(robots_text, agent)
    /\ (pp.parsed /\ ~pp.raised) =>
          /\ pp.disallowed_paths = SpecRules(robots_text, agent, "disallow")
          /\ (pp.crawl_delay # NoDelay) = HasApplicableDelay(robots_text, agent)

\* is_allowed of the specification, on the rules of the applicable groups
SpecAllowed(text, ua, p) ==
    AnyPrefix(SpecRules(text, ua, "allow"), p)
        \/ ~AnyPrefix(SpecRules(text, ua, "disallow"), p)

\* C23: a path is allowed when an Allow prefix matches it or no Disallow
\* prefix does, and denied otherwise: is_allowed of robots_parser.py on the
\* rules it holds, and can_fetch of politeness_policy.py on the Allow and
\* Disallow lines of the applicable groups of the file it parsed.
C23_AllowPrecedence ==
    /\ rp.parsed =>
          \A p \in Paths :
              is_allowed(rp, p) = (AnyPrefix(rp.allow, p) \/ ~AnyPrefix(rp.disallow, p))
    /\ (pp.parsed /\ ~pp.raised) =>
          \A p \in Paths : can_fetch(pp, p) = SpecAllowed(robots_text, agent, p)

\* the values of all Sitemap lines of the file, in file order
AllSitemaps(text) ==
    LET sm == SelectSeq(text, LAMBDA l : l.key = "sitemap")
    IN [k \in 1..Len(sm) |-> sm[k].val]

\* C24: after a parse that did not raise, the sitemap list holds every
\* Sitemap line of the file, wherever the line stands.
C24_SitemapsHostGlobal ==
    (rp.parsed /\ ~rp.raised) => rp.sitemaps = AllSitemaps(robots_text)

\* the first line that is not blank or a comment, if any, is a User-agent line
StartsWithGroup(text) ==
    \A i \in 1..Len(text) :
        (\A j \in 1..(i - 1) : text[j].key = "#") => text[i].key \in {"#", "user-agent"}

\* C25: a Crawl-delay line whose value is not a number does not make parsing
\* raise, in either parser (for files that start with a User-agent line).
C25_BadCrawlDelayIgnored ==
    StartsWithGroup(robots_text) =>
        /\ rp.parsed => ~rp.raised
        /\ pp.parsed => ~pp.raised

\* every Crawl-delay line of the file carries a whole number
DelaysWellFormed(text) ==
    \A i \in 1..Len(text) : text[i].key = "crawl-delay" => text[i].val \in IntTokens

\* C26: a file whose Crawl-delay values are all well formed is parsed without
\* raising whatever its other lines are (unknown directives, lines without a
\* colon, rule lines before the first User-agent line), and the well-formed
\* Disallow lines of the applicable groups take effect.
C26_MalformedLinesSkipped ==
    DelaysWellFormed(robots_text) =>
        /\ rp.parsed => ~rp.raised
        /\ pp.parsed =>
              /\ ~pp.raised
              /\ pp.disallowed_paths = SpecRules(robots_text, agent, "disallow")

\* the file has a group named g
HasGroup(text, g) == \E i \in 1..Len(text) : text[i] = Line("user-agent", <<g>>)

\* the crawl-delay (in tenths of a second) of the groups naming the agent:
\* the value of their last Crawl-delay line, NoDelay when they have none
RECURSIVE SpecificDelayFrom(_, _, _, _)
SpecificDelayFrom(text, ua, i, d) ==
    IF i > Len(text) THEN d
    ELSE IF text[i].key = "crawl-delay" /\ GroupNamed(text, i) = <<ua>>
         THEN SpecificDelayFrom(text, ua, i + 1, Tenths(text[i].val))
         ELSE SpecificDelayFrom(text, ua, i + 1, d)
SpecificDelay(text, ua) == SpecificDelayFrom(text, ua, 1, NoDelay)

\* C27: for a file with a "*" group and a group naming the crawler's agent,
\* after a parse that did not raise the Disallow (and Allow) rules of both
\* groups are held, and when the agent's group gives a crawl-delay it is the
\* one held, whichever group comes first.
C27_UnionAndSpecificDelay ==
    (agent # "*" /\ HasGroup(robots_text, "*") /\ HasGroup(robots_text, agent)) =>
        /\ (rp.parsed /\ ~rp.raised) =>
              /\ rp.disallow = SpecRules(robots_text, agent, "disallow")
              /\ rp.allow = SpecRules(robots_text, agent, "allow")
              /\ SpecificDelay(robots_text, agent) # NoDelay =>
                    rp.crawl_delay = SpecificDelay(robots_text, agent)
        /\ (pp.parsed /\ ~pp.raised) =>
              /\ pp.disallowed_paths = SpecRules(robots_text, agent, "disallow")
              /\ SpecificDelay(robots_text, agent) # NoDelay =>
                    pp.crawl_delay = SpecificDelay(robots_text, agent)

\* a Success of the specification: a 2xx response with a body
SpecSuccess(o) ==
    o.exc = "none" /\ o.status >= 200 /\ o.status < 300 /\ ResponseText(o) # ""

\* C28: an attempt that is a Success (2xx with a body) ends the fetch, which
\* returns its body; every other attempt is a failure: the fetch goes on to
\* sleep and retry, and returns such an attempt's response never (it returns
\* None once the attempts are used up).
C28_AttemptClassification ==
    \A k \in 1..Len(gets) :
        IF SpecSuccess(gets[k])
        THEN k = Len(gets) /\ fpc = "returned" /\ result = ResponseText(gets[k])
        ELSE \/ k < Len(gets)
             \/ fpc \in {"sleep", "get"}
             \/ fpc = "returned" /\ result = "None"

\* the resolutions of the hrefs that have a scheme and an authority, in
\* document order, duplicates kept
ResolvedLinks(hs, base) ==
    LET full == [k \in 1..Len(hs) |-> urljoin(base, hs[k])]
    IN SelectSeq(full, LAMBDA u : u.scheme # "" /\ u.netloc # "")

\* C29: what extract_links returns is the sequence of the resolved hrefs
\* that have a scheme and an authority, in document order and with
\* duplicates kept; for ContentExtractor.extract_links and for
\* Crawler.extract_links.
C29_ExtractLinks ==
    /\ ce_links.done => ce_links.val = ResolvedLinks(hrefs, base_url)
    /\ crawler_links.done => crawler_links.val = ResolvedLinks(hrefs, base_url)

\* the normalized form of a URL: its fragment stripped
Normalized(u) == [UrlRecord(u) EXCEPT !.fragment = ""]

\* C30: URLs are compared for dedup in normalized form: no two URLs that
\* were fetched and marked visited differ only in their fragment, so a page
\* is fetched at most once.
C30_NormalizedDedup ==
    \A u, v \in visited_urls : Normalized(u) = Normalized(v) => u = v

\* C31: cancellation.  After the stop signal is raised no worker claims a
\* further frontier entry (the part of the claim a finite run refutes; with
\* it fall "every worker reaches Stopped" and "the crawl call returns even
\* though the frontier is not empty", since a worker leaves its loop only on
\* an empty queue).
C31_NoClaimAfterStop ==
    [][stop_signal =>
          \A w \in DOMAIN wpc : ~(wpc[w] = "get" /\ wpc'[w] = "enforce")]_vars

\* C32: a crawl started with zero workers is never reported as complete
\* while seed URLs remain unfetched in the frontier.
C32_ZeroWorkersRejected ==
    (max_workers = 0 /\ url_queue # <<>>) => mgr # "complete"

\* the rules a URL's own host has published, once fetch_robots has parsed them
OwnRules(u) ==
    IF \E k \in 1..Len(robots_fetched) : robots_fetched[k] = HostOf(u)
    THEN parse_robots(RpNew, RobotsFile(u.netloc), "*")
    ELSE RpNew

\* the allow/deny answer for a URL is the one its own host's rules give
RulesHostScoped ==
    \A u \in ScopeUrls :
        is_allowed(robots_parser, u.path) = is_allowed(OwnRules(u), u.path)

\* the waiting time of a URL is what is left of the delay since the last
\* access to its own host
AccessHostScoped ==
    \A u \in ScopeUrls :
        SleepTime(last_access_times, u.netloc, now, Delay)
            = SleepTime(host_access, HostOf(u), now, Delay)

\* C33: robots rules and politeness records are scoped to one host
\* (scheme://authority): the answer for a URL comes from the rules of its own
\* host only, and its waiting time from the accesses to its own host only.
C33_HostScoped == RulesHostScoped /\ AccessHostScoped

\* the number of requests of key k that rate_limit_check let pass at time t
AcceptedAt(k, t) == IF t \in DOMAIN accepted[k] THEN accepted[k][t] ELSE 0

\* ... and in the n time units from t on
RECURSIVE AcceptedFrom(_, _, _)
AcceptedFrom(k, t, n) ==
    IF n = 0 THEN 0 ELSE AcceptedAt(k, t) + AcceptedFrom(k, t + 1, n - 1)

\* C34: for every valid API key and every time window of length
\* RATE_LIMIT_WINDOW, at most MAX_REQUESTS_PER_WINDOW requests with that key
\* are accepted, also when requests with the same key are handled
\* concurrently.
C34_RateLimit ==
    \A k \in ValidKeys, t \in 0..MaxApiTime :
        AcceptedFrom(k, t, RATE_LIMIT_WINDOW) <= MAX_REQUESTS_PER_WINDOW

\* C35: a request without a key is answered 401 and one with an unknown key
\* 403, both without entering the rate-limit accounting; a request answered
\* 429 has not stored a timestamp in the history of its key.
C35_OrderedChecks ==
    \A h \in DOMAIN hpc :
        hpc[h] = "done" =>
            /\ api_key[h] = "" => response[h] = "401" /\ ~touched[h]
            /\ (api_key[h] # "" /\ api_key[h] \notin ValidKeys) =>
                   response[h] = "403" /\ ~touched[h]
            /\ response[h] \in {"401", "403", "429"} => ~accounted[h]

\* C35 witness: one request is being answered 429 and another 403
C35_Witness ==
    \E h1, h2 \in DOMAIN hpc :
        /\ hpc[h1] = "done" /\ response[h1] = "429"
        /\ hpc[h2] = "done" /\ response[h2] = "403"

\* C36: POST /reset_rate_limit with a valid API key succeeds in any state of
\* the tracker, also when the key has used all the requests of the window.
C36_ResetSucceeds ==
    \A h \in DOMAIN hpc :
        (hpc[h] = "done" /\ endpoint[h] = "reset_rate_limit" /\ api_key[h] \in ValidKeys)
            => response[h] = "200"

\* what holds at every point of start_crawling: crawl was called at most
\* max_pages times, never on a URL that was in visited_urls, and after a
\* successful crawl to_crawl and visited_urls are disjoint; the loop is left
\* only with to_crawl empty or max_pages reached
CrawlerSafe ==
    /\ pages_crawled <= max_pages
    /\ ~recrawled
    /\ after_ok => to_crawl \cap crawler_visited = {}
    /\ (cpc = "idle" /\ runs > 0) => (to_crawl = {} \/ pages_crawled = max_pages)

\* C37: Crawler.start_crawling calls crawl at most max_pages times, never on
\* a URL already in visited_urls, leaves to_crawl and visited_urls disjoint
\* after every successful crawl, and every call of it terminates, with
\* to_crawl empty or max_pages reached.
C37_StartCrawling == []CrawlerSafe /\ ((cpc = "loop") ~> (cpc = "idle"))

\* C37 witness: a second call of start_crawling has returned after max_pages
\* = 1 page, with two pages visited in all and a URL left in to_crawl
C37_Witness ==
    /\ cpc = "idle" /\ runs = 2 /\ max_pages = 1 /\ pages_crawled = 1
    /\ Cardinality(crawler_visited) = 2
    /\ after_ok
    /\ to_crawl # {}
====
